---- MODULE Spec2Model ----
(***************************************************************************)
(* HoboDraft: the structured-element editor (src/pages/Editor.tsx, both    *)
(* copies kept in the repository), the shared view (SharedView.tsx) and    *)
(* the Deno KV server handlers that persist a script.                      *)
(*                                                                         *)
(* Text is a sequence of one-character strings, so that case conversion,   *)
(* prefixes and tokens are computed rather than assumed.                   *)
(***************************************************************************)
EXTENDS Integers, Sequences, FiniteSets, Bags, TLC

VARIABLES
    variant,            \* which copy of Editor.tsx runs: 1 (lines 54-650) or 2 (lines 692-1283)
    script,             \* Editor: useState script (NoScript until loaded)
    elements,           \* Editor: useState elements
    titlePage,          \* Editor: useState titlePage
    activeId,           \* Editor: useState activeId (0 = null)
    activeType,         \* Editor: useState activeType
    dirty,              \* Editor: useState dirty
    saving,             \* Editor: useState saving
    characters,         \* Editor: useState characters
    locations,          \* Editor: useState locations
    shareToken,         \* Editor: useState shareToken (0 = null)
    shareMode,          \* Editor: useState shareMode
    focusMode,          \* Editor: useState focusMode
    modal,              \* Editor: useState modal ("null" = null)
    comments,           \* Editor: useState comments
    handlers,           \* server: handlers between their kv.get and their kv.set (a bag)
    nextCid,            \* next value genId() gives the server for a comment
    showAutocomplete,   \* Editor: useState showAutocomplete
    autocompleteItems,  \* Editor: useState autocompleteItems
    autocompleteIndex,  \* Editor: useState autocompleteIndex
    versions,           \* Editor: useState versions (summaries: version ids)
    saveTimer,          \* Editor: saveTimerRef / saveTimer and the callback it holds
    page,               \* "editor" while the Editor page is mounted, "left" after navigation
    restorePc,          \* position of the async restoreVersion: "idle", "create", "restore"
    restoreVid,         \* the version id restoreVersion was called with
    restoreSeen,        \* what restoreVersion's caller saw when it was called (history)
    deleted,            \* the version ids deleteVersion was called with (history)
    nextElId,           \* next value crypto.randomUUID() gives the editor for an element
    kvScript,           \* server: the value under ["scripts", id]
    kvShares,           \* server: the entries under ["shares", token]
    nextVid,            \* next value genId() gives the server for a version
    nextTok,            \* next value genShareToken() gives
    reqs,               \* requests sent and not yet handled by the server (a bag)
    resps,              \* responses sent and not yet received by the page (a bag)
    svLoaded,           \* SharedView: script !== null
    svToken,            \* SharedView: the token of its URL
    svElements,         \* SharedView: useState elements
    svMode,             \* SharedView: useState mode
    focused,            \* the element holding DOM focus (0 = none)
    focusTimers,        \* pending setTimeout(() => div.focus(), 10) callbacks, oldest first
    now,                \* ticks since the last content mutation (history)
    download,           \* the file last handed to downloadFile / to the <a download> link
    analysis,           \* Editor: useState analysis (NullAnalysis = null)
    kvUsers,            \* server: the values under ["users", id], in the order of their ids
    kvUsersByName,      \* server: the ids under ["users_by_username", username]
    kvSessions,         \* server: the values under ["sessions", token], in token order
    lastOp              \* the handler that ran last and the save request it sent (history)

edVars  == <<script, elements, titlePage, activeId, activeType, dirty, saving>>
sugVars == <<characters, locations>>
shVars  == <<shareToken, shareMode>>
focVars == <<focused, focusTimers>>
uiVars  == <<focusMode, modal>>
cmtVars == <<comments, handlers, nextCid>>
acVars  == <<showAutocomplete, autocompleteItems, autocompleteIndex>>
verVars == <<versions, restorePc, restoreVid, restoreSeen, deleted>>
srvVars == <<kvScript, kvShares, nextVid, nextTok>>
netVars == <<reqs, resps>>
svVars  == <<svLoaded, svToken, svElements, svMode>>
authVars == <<kvUsers, kvUsersByName, kvSessions>>
auxVars == <<download, analysis, authVars>>
vars == <<variant, download, analysis, kvUsers, kvUsersByName, kvSessions, focusMode, modal, comments, handlers, nextCid, script, elements, titlePage, activeId, activeType, dirty, saving,
          characters, locations, shareToken, shareMode, showAutocomplete, autocompleteItems, autocompleteIndex,
          versions, saveTimer, page, restorePc, restoreVid, restoreSeen, deleted, nextElId,
          kvScript, kvShares, nextVid, nextTok, reqs, resps,
          svLoaded, svToken, svElements, svMode, focused, focusTimers, now, lastOp>>

(***************************************************************************)
(* Bounds of the model.                                                    *)
(***************************************************************************)
MaxElems == 2        \* Enter and '+' are not pressed on a document this long
MaxNewIds == 2       \* element ids the editor may still generate
MaxKeyedElems == 3   \* Enter is not pressed on a document this long when only keys are pressed
MaxInflight == 1     \* requests plus responses in transit
MaxRacingSaves == 2  \* save requests plus responses in transit when Ctrl+S races the timer's save
MaxWithComment == 2  \* requests and responses in transit when a comment is added
MaxComments == 1     \* comments added
MaxWithShare == 2    \* requests and responses in transit when sharing is enabled
MaxNewVersions == 2  \* versions the server may still create
MaxTokens == 2       \* share tokens the server may still generate
MaxFocusTimers == 1  \* pending focus callbacks
MaxDeletes == 1      \* versions the user may still delete

(***************************************************************************)
(* Program constants.                                                      *)
(***************************************************************************)
DebounceMs == 2000   \* window.setTimeout(() => saveContent(), 2000)
VersionCap == 20     \* if (s.versions.length > 20) s.versions = s.versions.slice(-20)
TickMs == 500        \* granularity of model time: one tick

DebounceTicks == (DebounceMs + TickMs - 1) \div TickMs

(***************************************************************************)
(* Sequence helpers (JavaScript array and string methods).                 *)
(***************************************************************************)
Range(s) == {s[i] : i \in DOMAIN s}

\* Array.prototype.indexOf, 0-based, -1 when absent
IndexOf(s, x) ==
    IF \E i \in DOMAIN s : s[i] = x
    THEN (CHOOSE i \in DOMAIN s : s[i] = x /\ \A j \in 1..(i - 1) : s[j] # x) - 1
    ELSE -1

\* Array.prototype.findIndex(el => el.id === id), 0-based, -1 when absent
FindIndex(els, id) ==
    IF \E i \in DOMAIN els : els[i].id = id
    THEN (CHOOSE i \in DOMAIN els :
              els[i].id = id /\ \A j \in 1..(i - 1) : els[j].id # id) - 1
    ELSE -1

Min(a, b) == IF a < b THEN a ELSE b
Max(a, b) == IF a > b THEN a ELSE b

\* The characters of the model's texts, in code-unit order
AsciiOrder ==
    <<" ", "-", ".", "/",
      "A", "B", "C", "D", "E", "F", "G", "H", "I", "J", "K", "L", "M",
      "N", "O", "P", "Q", "R", "S", "T", "U", "V", "W", "X", "Y", "Z",
      "a", "b", "c", "d", "e", "f", "g", "h", "i", "j", "k", "l", "m",
      "n", "o", "p", "q", "r", "s", "t", "u", "v", "w", "x", "y", "z">>
CharCode(c) == IndexOf(AsciiOrder, c)

\* String.prototype.toUpperCase / toLowerCase
UpperChar(c) ==
    IF CharCode(c) >= CharCode("a")
    THEN AsciiOrder[CharCode(c) - CharCode("a") + CharCode("A") + 1] ELSE c
LowerChar(c) ==
    IF CharCode(c) >= CharCode("A") /\ CharCode(c) < CharCode("a")
    THEN AsciiOrder[CharCode(c) - CharCode("A") + CharCode("a") + 1] ELSE c
ToUpperCase(t) == [i \in DOMAIN t |-> UpperChar(t[i])]
ToLowerCase(t) == [i \in DOMAIN t |-> LowerChar(t[i])]

\* String.prototype.substring(a - 1, b), clamped to the text
Sub(t, a, b) ==
    IF Max(a, 1) > Min(b, Len(t)) THEN <<>> ELSE SubSeq(t, Max(a, 1), Min(b, Len(t)))

\* newEls.splice(i0 + 1, 0, x) on a copy: x becomes the element at 0-based index i0 + 1
InsertAfter(s, i0, x) ==
    Sub(s, 1, i0 + 1) \o <<x>> \o Sub(s, i0 + 2, Len(s))

\* String.prototype.startsWith
StartsWith(t, p) == Len(p) <= Len(t) /\ SubSeq(t, 1, Len(p)) = p

\* String.prototype.includes
Includes(t, p) == \E i \in 1..(Len(t) - Len(p) + 1) : SubSeq(t, i, i + Len(p) - 1) = p

\* String.prototype.slice(0, n)
Slice0(t, n) == SubSeq(t, 1, Min(n, Len(t)))

IsSpace(c) == c = " "

\* String.prototype.trim
RECURSIVE TrimStart(_)
TrimStart(t) == IF t # <<>> /\ IsSpace(Head(t)) THEN TrimStart(Tail(t)) ELSE t
RECURSIVE TrimEnd(_)
TrimEnd(t) ==
    IF t # <<>> /\ IsSpace(t[Len(t)]) THEN TrimEnd(SubSeq(t, 1, Len(t) - 1)) ELSE t
Trim(t) == TrimEnd(TrimStart(t))

\* the default comparison of Array.prototype.sort: by code units
RECURSIVE LexLess(_, _)
LexLess(a, b) ==
    IF a = <<>> THEN b # <<>>
    ELSE IF b = <<>> THEN FALSE
    ELSE IF Head(a) = Head(b) THEN LexLess(Tail(a), Tail(b))
    ELSE CharCode(Head(a)) < CharCode(Head(b))

\* Array.from(set).sort()
RECURSIVE SortTexts(_)
SortTexts(S) ==
    IF S = {} THEN <<>>
    ELSE LET m == CHOOSE x \in S : \A y \in S \ {x} : LexLess(x, y)
         IN <<m>> \o SortTexts(S \ {m})

(***************************************************************************)
(* Grammar registry: Editor.tsx lines 16-40.                               *)
(***************************************************************************)
SCREENPLAY_TYPES ==
    <<"scene-heading", "action", "character", "dialogue", "parenthetical", "transition">>
POETRY_TYPES == <<"poem-title", "stanza", "line", "couplet", "attribution">>
FICTION_TYPES == <<"chapter-heading", "paragraph", "dialogue-fiction", "break", "epigraph">>

SCREENPLAY_NEXT ==
    [t \in Range(SCREENPLAY_TYPES) |->
        CASE t = "scene-heading" -> "action"
          [] t = "action" -> "character"
          [] t = "character" -> "dialogue"
          [] t = "dialogue" -> "character"
          [] t = "parenthetical" -> "dialogue"
          [] t = "transition" -> "scene-heading"]
POETRY_NEXT ==
    [t \in Range(POETRY_TYPES) |-> IF t = "couplet" THEN "couplet" ELSE "line"]
FICTION_NEXT == [t \in Range(FICTION_TYPES) |-> "paragraph"]

\* String.prototype.toLowerCase on a document type
TypeLower(type) == IF type = "Poem" THEN "poem" ELSE type

\* the classification without 'const t = type.toLowerCase()'
getCategory_caseSensitive(type) ==
    IF type = "" THEN "screenplay"
    ELSE IF type \in {"poetry", "poem"} THEN "poetry"
    ELSE IF type \in {"fiction", "novel", "short-story"} THEN "fiction"
    ELSE "screenplay"

getCategory(type) ==
    IF type = "" THEN "screenplay"
    ELSE IF TypeLower(type) \in {"poetry", "poem"} THEN "poetry"
    ELSE IF TypeLower(type) \in {"fiction", "novel", "short-story"} THEN "fiction"
    ELSE "screenplay"

getTypeConfig(category) ==
    IF category = "poetry" THEN [types |-> POETRY_TYPES, next |-> POETRY_NEXT]
    ELSE IF category = "fiction" THEN [types |-> FICTION_TYPES, next |-> FICTION_NEXT]
    ELSE [types |-> SCREENPLAY_TYPES, next |-> SCREENPLAY_NEXT]

TYPES == getTypeConfig(getCategory(script.type)).types
NEXT_TYPE == getTypeConfig(getCategory(script.type)).next

\* NEXT_TYPE[el.type] || TYPES[0]
SuccessorType(t) == IF t \in DOMAIN NEXT_TYPE THEN NEXT_TYPE[t] ELSE TYPES[1]

\* Math.min(curIdx + 1, n - 1), or Math.max(curIdx - 1, 0) with Shift: no wrap
CycleType_clamped(t, shiftKey) ==
    LET n == Len(TYPES)
        curIdx == IndexOf(TYPES, t)
        newIdx == IF shiftKey THEN Max(curIdx - 1, 0) ELSE Min(curIdx + 1, n - 1)
    IN TYPES[newIdx + 1]

\* handleKeyDown, Tab: (curIdx + 1) % n, or (curIdx - 1 + n) % n with Shift
CycleType(t, shiftKey) ==
    LET n == Len(TYPES)
        curIdx == IndexOf(TYPES, t)
        newIdx == IF shiftKey THEN (curIdx - 1 + n) % n ELSE (curIdx + 1) % n
    IN TYPES[newIdx + 1]

(***************************************************************************)
(* The document a new script is created with: POST /api/scripts.           *)
(***************************************************************************)
DocTypes == {"feature", "poetry", "novel"}

getDefaultElement(type) ==
    IF TypeLower(type) \in {"poetry", "poem"}
    THEN [type |-> "poem-title",
          content |-> <<"U","n","t","i","t","l","e","d"," ","P","o","e","m">>]
    ELSE IF TypeLower(type) \in {"fiction", "novel", "short-story"}
    THEN [type |-> "chapter-heading",
          content |-> <<"C","h","a","p","t","e","r"," ","O","n","e">>]
    ELSE [type |-> "scene-heading",
          content |-> <<"I","N","T","."," ","L","O","C","A","T","I","O","N",
                        " ","-"," ","D","A","Y">>]

Untitled == <<"U","n","t","i","t","l","e","d">>

NewScript(type) ==
    [id |-> 1, type |-> type, ownerId |-> 1,
     content |->
        [elements |-> <<[id |-> 1, type |-> getDefaultElement(type).type,
                         content |-> getDefaultElement(type).content]>>,
         titlePage |-> [title |-> Untitled, writtenBy |-> <<"b">>, contact |-> <<>>,
                        draft |-> <<>>, date |-> <<"d">>]],
     versions |-> <<>>, comments |-> <<>>,
     shareToken |-> 0, shareMode |-> "null"]

NoScript == [id |-> 0, type |-> ""]
NoDownload == [text |-> <<>>, filename |-> <<>>, mime |-> ""]
NullAnalysis == [null |-> TRUE]     \* useState<any>(null)
EmptyTitlePage == <<>>     \* useState<any>({})

(***************************************************************************)
(* Server: what it derives from a content (part_003 lines 55-81).          *)
(***************************************************************************)
HasElements(content) == "elements" \in DOMAIN content

\* String.prototype.split(/\s+/): the pieces between the runs of white space
RECURSIVE SplitSpaces(_)
SplitSpaces(t) ==
    IF \A i \in DOMAIN t : ~IsSpace(t[i]) THEN <<t>>
    ELSE LET i == CHOOSE k \in DOMAIN t : IsSpace(t[k]) /\ \A j \in 1..(k - 1) : ~IsSpace(t[j])
         IN <<SubSeq(t, 1, i - 1)>> \o SplitSpaces(TrimStart(SubSeq(t, i, Len(t))))

NonEmpty(w) == Len(w) > 0

\* countWords (part_003 lines 55-57): text.trim().split(/\s+/).filter(w => w.length > 0).length
countWords(text) == Len(SelectSeq(SplitSpaces(Trim(text)), NonEmpty))

NoAnalysis ==
    [totalWords |-> 0, dialogueWords |-> 0, actionWords |-> 0, sceneCount |-> 0,
     characterDialogue |-> <<>>]

\* characterDialogue[key] = (characterDialogue[key] || 0) + words
AddWords(cd, key, words) ==
    [k \in DOMAIN cd \cup {key} |->
        IF k = key THEN (IF key \in DOMAIN cd THEN cd[key] ELSE 0) + words ELSE cd[k]]

\* the scan that attributes every dialogue, the one before the first cue included
AnalyzeStep_unguarded(acc, currentCharacter, el) ==
    LET words == countWords(el.content)
    IN [totalWords |-> acc.totalWords + words,
        sceneCount |-> acc.sceneCount + (IF el.type = "scene-heading" THEN 1 ELSE 0),
        dialogueWords |-> acc.dialogueWords + (IF el.type = "dialogue" THEN words ELSE 0),
        actionWords |-> acc.actionWords + (IF el.type = "action" THEN words ELSE 0),
        characterDialogue |->
            IF el.type = "dialogue"
            THEN AddWords(acc.characterDialogue, currentCharacter, words)
            ELSE acc.characterDialogue]

\* analyzeScript (part_003 lines 83-106): the body of its loop for one element, with
\* currentCharacter as the loop holds it at the dialogue test
AnalyzeStep(acc, currentCharacter, el) ==
    LET words == countWords(el.content)
    IN [totalWords |-> acc.totalWords + words,
        sceneCount |-> acc.sceneCount + (IF el.type = "scene-heading" THEN 1 ELSE 0),
        dialogueWords |-> acc.dialogueWords + (IF el.type = "dialogue" THEN words ELSE 0),
        actionWords |-> acc.actionWords + (IF el.type = "action" THEN words ELSE 0),
        characterDialogue |->
            IF el.type = "dialogue" /\ currentCharacter # <<>>
            THEN AddWords(acc.characterDialogue, currentCharacter, words)
            ELSE acc.characterDialogue]

\* if (el.type === 'character') currentCharacter = (el.content || '').toUpperCase().trim()
NextCharacter(currentCharacter, el) ==
    IF el.type = "character" THEN Trim(ToUpperCase(el.content)) ELSE currentCharacter

RECURSIVE AnalyzeFrom(_, _, _)
AnalyzeFrom(acc, currentCharacter, els) ==
    IF els = <<>> THEN acc
    ELSE AnalyzeFrom(AnalyzeStep(acc, NextCharacter(currentCharacter, Head(els)), Head(els)),
                     NextCharacter(currentCharacter, Head(els)), Tail(els))

analyzeScript(content) ==
    IF ~HasElements(content) THEN NoAnalysis
    ELSE AnalyzeFrom(NoAnalysis, <<>>, content.elements)
HasTitlePage(content) == "titlePage" \in DOMAIN content

LocationPrefixes ==
    << <<"I","N","T",".">>, <<"E","X","T",".">>, <<"I","N","T","/","E","X","T",".">> >>
DayParts ==
    { <<"D","A","Y">>, <<"N","I","G","H","T">>, <<"M","O","R","N","I","N","G">>,
      <<"E","V","E","N","I","N","G">>, <<"L","A","T","E","R">>,
      <<"C","O","N","T","I","N","U","O","U","S">> }

\* (?:\s*-\s*(?:DAY|NIGHT|MORNING|EVENING|LATER|CONTINUOUS))?$ , case-insensitive
IsDaySuffix(u) ==
    \/ u = <<>>
    \/ LET a == TrimStart(u)
       IN a # <<>> /\ Head(a) = "-" /\ TrimStart(Tail(a)) \in DayParts

\* the first group of
\* /(?:INT\.|EXT\.|INT\/EXT\.)\s*(.+?)(?:\s*-\s*(?:DAY|...))?$/i  at position p, if it matches
LocationAt(t, p) ==
    LET u == ToUpperCase(t)
        pres == {i \in DOMAIN LocationPrefixes :
                    Sub(u, p, p + Len(LocationPrefixes[i]) - 1) = LocationPrefixes[i]}
    IN IF pres = {} THEN [ok |-> FALSE, group |-> <<>>]
       ELSE LET pre == LocationPrefixes[CHOOSE i \in pres : \A j \in pres : i <= j]
                after == p + Len(pre)
                rest == Sub(t, after, Len(t))
                q == after + (Len(rest) - Len(TrimStart(rest)))   \* greedy \s*
            IN IF q <= Len(t)
               THEN LET e == CHOOSE e \in q..Len(t) :
                                /\ IsDaySuffix(Sub(u, e + 1, Len(u)))
                                /\ \A f \in q..(e - 1) : ~IsDaySuffix(Sub(u, f + 1, Len(u)))
                    IN [ok |-> TRUE, group |-> SubSeq(t, q, e)]
               ELSE IF rest # <<>>
               THEN [ok |-> TRUE, group |-> <<t[Len(t)]>>]   \* \s* gives its last space back
               ELSE [ok |-> FALSE, group |-> <<>>]

\* el.content.match(...): the leftmost position at which the pattern matches
LocationMatch(t) ==
    LET ps == {p \in DOMAIN t : LocationAt(t, p).ok}
    IN IF ps = {} THEN [ok |-> FALSE, group |-> <<>>]
       ELSE LocationAt(t, CHOOSE p \in ps : \A r \in ps : p <= r)

extractCharacters(content) ==
    IF ~HasElements(content) THEN <<>>
    ELSE SortTexts({Trim(ToUpperCase(el.content)) :
                       el \in {e \in Range(content.elements) :
                                  e.type = "character" /\ e.content # <<>>}})

extractLocations(content) ==
    IF ~HasElements(content) THEN <<>>
    ELSE SortTexts({ToUpperCase(Trim(LocationMatch(el.content).group)) :
                       el \in {e \in Range(content.elements) :
                                  /\ e.type = "scene-heading" /\ e.content # <<>>
                                  /\ LocationMatch(e.content).ok}})

VersionSummaries(s) == [i \in DOMAIN s.versions |-> s.versions[i].id]

(***************************************************************************)
(* Editor: closures.  A handler runs in the closure of the render that     *)
(* created it; a state setter takes effect in the next render.             *)
(***************************************************************************)
\* what saveContent reads when it was created by the current render
CurrentRender == [elements |-> elements, titlePage |-> titlePage, dirty |-> dirty]
\* what saveContent reads when it was created by the first render (useState initial values)
FirstRender == [elements |-> <<>>, titlePage |-> EmptyTitlePage, dirty |-> FALSE]

NoTimer == [armed |-> FALSE, left |-> 0, closure |-> FirstRender]
TimerDue == saveTimer.armed /\ saveTimer.left = 0

NoPayload == [elements |-> <<>>]
\* history: the handler, whether a debounce timer was pending when it started, and
\* the save request it issued
\* handlers that leave the document as it is
Quiet == {"Tick", "FocusElement", "FocusTimeout", "KeyArrow", "KeyEscape",
          "ToggleFocusMode", "KeySearch", "ServerPutContentGet", "ServerPutContentSet",
          "TimerFire", "KeySave", "ServerPutContent", "SaveResponse"}
\* handlers that end a save without a save response
SaveEnds == {"SaveResponse", "SaveErrorResponse", "SaveRejected", "ResponseAfterLeave"}
\* history: "timer" while the debounced save is the one save in flight, "both" from
\* the Ctrl+S save issued during it until the next handler that is not Quiet
RaceAfter(name) ==
    CASE lastOp.race = "timer" /\ name \in SaveEnds -> "none"
      [] lastOp.race = "both" /\ name \notin Quiet -> "none"
      [] OTHER -> lastOp.race
RaceAfterSend(name) ==
    CASE name = "TimerFire" /\ BagCardinality(reqs) + BagCardinality(resps) = 0
             /\ handlers = EmptyBag -> "timer"
      [] name = "KeySave" /\ lastOp.race = "timer" -> "both"
      [] OTHER -> "none"
\* history: the key event's modifier and the window it was pressed in
NoKey == [shiftKey |-> FALSE, innerWidth |-> 0, touch |-> FALSE]
Op(name) == [op |-> name, pending |-> saveTimer.armed, sent |-> FALSE, payload |-> NoPayload,
             race |-> RaceAfter(name), key |-> NoKey]
OpSent(name, payload) ==
    [op |-> name, pending |-> saveTimer.armed, sent |-> TRUE, payload |-> payload,
     race |-> RaceAfterSend(name), key |-> NoKey]
OpKey(name, shiftKey, innerWidth, touch) ==
    [Op(name) EXCEPT !.key = [shiftKey |-> shiftKey, innerWidth |-> innerWidth,
                              touch |-> touch]]

\* the saveContent that markDirty's timer callback calls:
\* copy 1: useCallback(..., [saveContent]) with saveContent = useCallback(..., [elements, titlePage, id])
\* copy 2: useCallback(..., []), the first render's saveContent
MarkDirtyClosure == IF variant = 1 THEN CurrentRender ELSE FirstRender

\* the saveContent that the window keydown listener (registered by useEffect(..., [])) calls
KeyboardClosure == FirstRender

\* the saveContent that the back button's saveNow calls
ButtonClosure == CurrentRender

\* copy 2 only: if (!dirty) return;
SaveContentSends(closure) == variant = 1 \/ closure.dirty

SavePayload(closure) == [elements |-> closure.elements, titlePage |-> closure.titlePage]

InTransit == BagCardinality(reqs) + BagCardinality(handlers) + BagCardinality(resps)
Send(bag, m) == bag (+) SetToBag({m})
Take(bag, m) == bag (-) SetToBag({m})

\* markDirty
MarkDirty ==
    /\ dirty' = TRUE
    /\ saveTimer' = [armed |-> TRUE, left |-> DebounceTicks, closure |-> MarkDirtyClosure]
    /\ now' = 0

\* saveContent up to its first await, called as op
SaveContent(closure, opName) ==
    IF SaveContentSends(closure)
    THEN /\ saving' = TRUE
         /\ reqs' = Send(reqs, [kind |-> "save", content |-> SavePayload(closure)])
         /\ lastOp' = OpSent(opName, SavePayload(closure))
    ELSE /\ UNCHANGED <<saving, reqs>>
         /\ lastOp' = Op(opName)

Ids(els) == {els[i].id : i \in DOMAIN els}
ElementById(els, id) == els[FindIndex(els, id) + 1]

\* prev.map(el => el.id === elId ? { ...el, content: val } : el)
SetContent(els, elId, val) ==
    [i \in DOMAIN els |-> IF els[i].id = elId THEN [els[i] EXCEPT !.content = val] ELSE els[i]]
\* prev.map(el => el.id === elId ? { id: el.id, type: newType, content: '' } : el)
SetType_clearsContent(els, elId, newType) ==
    [i \in DOMAIN els |-> IF els[i].id = elId
                           THEN [id |-> els[i].id, type |-> newType, content |-> <<>>]
                           ELSE els[i]]
\* prev.map(el => el.id === elId ? { ...el, type: newType } : el)
SetType(els, elId, newType) ==
    [i \in DOMAIN els |-> IF els[i].id = elId THEN [els[i] EXCEPT !.type = newType] ELSE els[i]]
\* elements.slice(0, -1): the list without its last element
RemoveElement_last(els, elId) == SubSeq(els, 1, Len(els) - 1)

\* elements.filter(x => x.id !== el.id)
RemoveElement(els, elId) == SelectSeq(els, LAMBDA x : x.id # elId)

\* a removed element's node leaves the DOM and loses focus
KeepFocus(els) == IF focused \in Ids(els) THEN focused ELSE 0

UserCanAct == page = "editor" /\ script # NoScript /\ ~TimerDue

(***************************************************************************)
(* Editor: loadScript (lines 94-112 and 761-779), on the GET response.     *)
(***************************************************************************)
LoadScript ==
    /\ page = "editor" /\ script = NoScript
    /\ LET content == kvScript.content
           els == IF HasElements(content) THEN content.elements ELSE <<>>
       IN /\ script' = [id |-> kvScript.id, type |-> kvScript.type]
          /\ elements' = els
          /\ titlePage' = IF HasTitlePage(content) THEN content.titlePage ELSE EmptyTitlePage
          /\ characters' = extractCharacters(content)
          /\ locations' = extractLocations(content)
          /\ comments' = kvScript.comments
          /\ analysis' = analyzeScript(content)
          /\ versions' = VersionSummaries(kvScript)
          /\ shareToken' = kvScript.shareToken
          /\ shareMode' = kvScript.shareMode
          /\ IF Len(els) > 0
             THEN activeId' = els[1].id /\ activeType' = els[1].type
             ELSE UNCHANGED <<activeId, activeType>>
    /\ lastOp' = Op("LoadScript")
    /\ UNCHANGED <<variant, download, authVars, uiVars, handlers, nextCid, dirty, saving, acVars, saveTimer,
                   page, restorePc, restoreVid, restoreSeen, deleted, nextElId, srvVars, netVars,
                   svVars, focVars, now>>

(***************************************************************************)
(* Editor: editing handlers (lines 171-272 and 811-912, the same in both   *)
(* copies).  A key or input event goes to the element that holds focus.    *)
(***************************************************************************)
\* what no editing handler touches
EditFrame == <<variant, auxVars, uiVars, cmtVars, script, saving, sugVars, shVars, verVars, page, srvVars, netVars,
               svVars>>

InputVals == {<<>>, <<"a">>}
TitleFields == {"title"}
TitleVals == {<<"T">>}

CanInsertWithin(cap) ==
    /\ Len(elements) < cap
    /\ nextElId <= 1 + MaxNewIds
    /\ Len(focusTimers) < MaxFocusTimers

CanInsert == CanInsertWithin(MaxElems)

\* handleFocus, from the focus event of a click or tap on element i
FocusElement(i) ==
    /\ UserCanAct
    /\ i \in DOMAIN elements /\ elements[i].id # focused
    /\ focused' = elements[i].id
    /\ activeId' = elements[i].id
    /\ activeType' = elements[i].type
    /\ lastOp' = Op("FocusElement")
    /\ UNCHANGED <<EditFrame, elements, titlePage, dirty, acVars, saveTimer, nextElId,
                   focusTimers, now>>

\* setTimeout(() => { div = paperRef.current?.querySelector(...); div?.focus(); }, 10)
FocusTimeout ==
    /\ page = "editor" /\ focusTimers # <<>>
    /\ focusTimers' = Tail(focusTimers)
    /\ LET id == Head(focusTimers)
       IN IF id \in Ids(elements) /\ id # focused
          THEN /\ focused' = id
               /\ activeId' = id
               /\ activeType' = ElementById(elements, id).type
          ELSE UNCHANGED <<focused, activeId, activeType>>
    /\ lastOp' = Op("FocusTimeout")
    /\ UNCHANGED <<EditFrame, elements, titlePage, dirty, acVars, saveTimer, nextElId, now>>

\* acceptAutocomplete(item)
AcceptAutocomplete(item) ==
    IF activeId = 0
    THEN UNCHANGED <<elements, showAutocomplete, dirty, saveTimer, now>>
    ELSE /\ elements' = SetContent(elements, activeId, item)
         /\ showAutocomplete' = FALSE
         /\ MarkDirty

\* the insertion with newEls.splice(index, 0, newEl): before the element at index
InsertNewElement_before(index) ==
    LET newEl == [id |-> nextElId, type |-> SuccessorType(elements[index + 1].type),
                  content |-> <<>>]
    IN /\ elements' = InsertAfter(elements, index - 1, newEl)
       /\ nextElId' = nextElId + 1
       /\ activeId' = newEl.id
       /\ activeType' = newEl.type
       /\ MarkDirty
       /\ focusTimers' = Append(focusTimers, newEl.id)

\* the insertion of handleKeyDown (Enter) and of addNewElement, after the element at index
InsertNewElement(index) ==
    LET newEl == [id |-> nextElId, type |-> SuccessorType(elements[index + 1].type),
                  content |-> <<>>]
    IN /\ elements' = InsertAfter(elements, index, newEl)
       /\ nextElId' = nextElId + 1
       /\ activeId' = newEl.id
       /\ activeType' = newEl.type
       /\ MarkDirty
       /\ focusTimers' = Append(focusTimers, newEl.id)

\* changeType(elId, newType)
ChangeType(elId, newType) ==
    /\ elements' = SetType(elements, elId, newType)
    /\ activeType' = newType
    /\ MarkDirty

\* window.innerWidth <= 768 || ('ontouchstart' in window)
MobileWidth == 768
WindowWidths == {MobileWidth, MobileWidth + 1}
DesktopWidth == MobileWidth + 1
isMobile(innerWidth, touch) == innerWidth <= MobileWidth \/ touch

\* const shouldCreateNew = isMobile() ? e.shiftKey : !e.shiftKey
ShouldCreateNew(shiftKey, innerWidth, touch) ==
    IF isMobile(innerWidth, touch) THEN shiftKey ELSE ~shiftKey

\* handleKeyDown, e.key === 'Enter'
KeyEnterWithin(cap, shiftKey, innerWidth, touch) ==
    /\ UserCanAct /\ focused # 0
    /\ showAutocomplete \/ ~ShouldCreateNew(shiftKey, innerWidth, touch) \/ CanInsertWithin(cap)
    /\ IF showAutocomplete
       THEN /\ AcceptAutocomplete(autocompleteItems[autocompleteIndex + 1])
            /\ UNCHANGED <<activeId, activeType, nextElId, focusTimers>>
       ELSE IF ShouldCreateNew(shiftKey, innerWidth, touch)
       THEN /\ InsertNewElement(FindIndex(elements, focused))
            /\ UNCHANGED showAutocomplete
       ELSE UNCHANGED <<elements, activeId, activeType, nextElId, focusTimers,
                        showAutocomplete, dirty, saveTimer, now>>
    /\ lastOp' = OpKey("KeyEnter", shiftKey, innerWidth, touch)
    /\ UNCHANGED <<EditFrame, titlePage, autocompleteItems, autocompleteIndex, focused>>

KeyEnter(shiftKey, innerWidth, touch) == KeyEnterWithin(MaxElems, shiftKey, innerWidth, touch)

\* handleKeyDown, e.key === 'Tab'
KeyTab(shiftKey) ==
    /\ UserCanAct /\ focused # 0
    /\ IF showAutocomplete
       THEN /\ AcceptAutocomplete(autocompleteItems[autocompleteIndex + 1])
            /\ UNCHANGED activeType
       ELSE /\ ChangeType(focused, CycleType(ElementById(elements, focused).type, shiftKey))
            /\ UNCHANGED showAutocomplete
    /\ lastOp' = Op("KeyTab")
    /\ UNCHANGED <<EditFrame, titlePage, activeId, autocompleteItems, autocompleteIndex,
                   nextElId, focVars>>

\* the condition without its test of the list's length
CanDeleteMerge_noLenGuard(el, els) == el.content = <<>>

\* if (e.key === 'Backspace' && el.content === '' && elements.length > 1)
CanDeleteMerge(el, els) == el.content = <<>> /\ Len(els) > 1

\* handleKeyDown, e.key === 'Backspace'
KeyBackspace ==
    /\ UserCanAct /\ focused # 0
    /\ LET index == FindIndex(elements, focused)
           el == elements[index + 1]
           newEls == RemoveElement(elements, el.id)
           prevIdx == Max(0, index - 1)
       IN IF CanDeleteMerge(el, elements)
          THEN /\ Len(focusTimers) < MaxFocusTimers
               /\ elements' = newEls
               /\ focused' = 0
               /\ IF prevIdx + 1 \in DOMAIN newEls
                  THEN /\ activeId' = newEls[prevIdx + 1].id
                       /\ activeType' = newEls[prevIdx + 1].type
                       /\ MarkDirty
                       /\ focusTimers' = Append(focusTimers, newEls[prevIdx + 1].id)
                  ELSE \* newEls[prevIdx] is undefined: reading its id throws
                       UNCHANGED <<activeId, activeType, dirty, saveTimer, now, focusTimers>>
          ELSE UNCHANGED <<elements, focVars, activeId, activeType, dirty, saveTimer, now>>
    /\ lastOp' = Op("KeyBackspace")
    /\ UNCHANGED <<EditFrame, titlePage, acVars, nextElId>>

\* handleKeyDown, ArrowDown (down = TRUE) and ArrowUp
KeyArrow(down) ==
    /\ UserCanAct /\ focused # 0
    /\ IF showAutocomplete
       THEN autocompleteIndex' =
                IF down THEN Min(autocompleteIndex + 1, Len(autocompleteItems) - 1)
                ELSE Max(autocompleteIndex - 1, 0)
       ELSE UNCHANGED autocompleteIndex
    /\ lastOp' = Op("KeyArrow")
    /\ UNCHANGED <<EditFrame, elements, titlePage, activeId, activeType, dirty,
                   showAutocomplete, autocompleteItems, saveTimer, nextElId, focVars, now>>

\* Escape: handleKeyDown closes the autocomplete, and the window listener runs
\* setShowAutocomplete(false); setFocusMode(false); setModal(null)
KeyEscape ==
    /\ UserCanAct
    /\ showAutocomplete' = FALSE
    /\ focusMode' = FALSE
    /\ modal' = "null"
    /\ lastOp' = Op("KeyEscape")
    /\ UNCHANGED <<variant, auxVars, cmtVars, script, saving, sugVars, shVars, verVars, page, srvVars,
                   netVars, svVars, elements, titlePage, activeId, activeType, dirty,
                   autocompleteItems, autocompleteIndex, saveTimer, nextElId, focVars, now>>

\* Ctrl/Cmd+E and the eye button: setFocusMode(f => !f)
ToggleFocusMode ==
    /\ UserCanAct
    /\ focusMode' = ~focusMode
    /\ lastOp' = Op("ToggleFocusMode")
    /\ UNCHANGED <<variant, auxVars, modal, cmtVars, edVars, sugVars, shVars, acVars, verVars, saveTimer, page,
                   nextElId, srvVars, netVars, svVars, focVars, now>>

\* Ctrl/Cmd+F: setModal('search')
KeySearch ==
    /\ UserCanAct
    /\ modal' = "search"
    /\ lastOp' = Op("KeySearch")
    /\ UNCHANGED <<variant, auxVars, focusMode, cmtVars, edVars, sugVars, shVars, acVars, verVars, saveTimer,
                   page, nextElId, srvVars, netVars, svVars, focVars, now>>

\* characters.filter(c => c.toLowerCase().startsWith(val.toLowerCase()))
CharacterMatches_keepsExact(val) ==
    SelectSeq(characters, LAMBDA c : StartsWith(ToLowerCase(c), ToLowerCase(val)))

\* the suggestions handleInput computes for an element of type t whose text becomes val
CharacterMatches(val) ==
    SelectSeq(characters, LAMBDA c :
        StartsWith(ToLowerCase(c), ToLowerCase(val)) /\ ToLowerCase(c) # ToLowerCase(val))
LocationMatches(val) ==
    SelectSeq(locations, LAMBDA l : Includes(ToUpperCase(val), Slice0(l, 3)))
LocationSuggestion(l) == <<"I","N","T","."," ">> \o l \o <<" ","-"," ","D","A","Y">>

\* handleInput(elId, val), from the input event of the focused element
HandleInput(val) ==
    /\ UserCanAct /\ focused # 0
    /\ elements' = SetContent(elements, focused, val)
    /\ MarkDirty
    /\ LET el == ElementById(elements, focused)
       IN IF el.type = "character" /\ Len(val) > 0
          THEN /\ autocompleteItems' = CharacterMatches(val)
               /\ showAutocomplete' = (Len(CharacterMatches(val)) > 0)
               /\ autocompleteIndex' = 0
          ELSE IF el.type = "scene-heading" /\ Len(val) > 4
          THEN /\ autocompleteItems' =
                      [i \in DOMAIN LocationMatches(val) |->
                          LocationSuggestion(LocationMatches(val)[i])]
               /\ showAutocomplete' = (Len(LocationMatches(val)) > 0)
               /\ autocompleteIndex' = 0
          ELSE /\ showAutocomplete' = FALSE
               /\ UNCHANGED <<autocompleteItems, autocompleteIndex>>
    /\ lastOp' = Op("HandleInput")
    /\ UNCHANGED <<EditFrame, titlePage, activeId, activeType, nextElId, focVars>>

\* handleToolbarTap(type)
ToolbarTap(type) ==
    /\ UserCanAct
    /\ IF activeId # 0
       THEN ChangeType(activeId, type)
       ELSE UNCHANGED <<elements, activeType, dirty, saveTimer, now>>
    /\ lastOp' = Op("ToolbarTap")
    /\ UNCHANGED <<EditFrame, titlePage, activeId, acVars, nextElId, focVars>>

\* addNewElement, the '+' button
AddNewElement ==
    /\ UserCanAct
    /\ IF activeId # 0 /\ FindIndex(elements, activeId) # -1
       THEN CanInsert /\ InsertNewElement(FindIndex(elements, activeId))
       ELSE UNCHANGED <<elements, nextElId, activeId, activeType, dirty, saveTimer, now,
                        focusTimers>>
    /\ lastOp' = Op("AddNewElement")
    /\ UNCHANGED <<EditFrame, titlePage, acVars, focused>>

\* onMouseDown of the k-th displayed suggestion (the first five are displayed)
AutocompleteClick(k) ==
    /\ UserCanAct
    /\ showAutocomplete /\ k \in 1..Min(5, Len(autocompleteItems))
    /\ AcceptAutocomplete(autocompleteItems[k])
    /\ lastOp' = Op("AutocompleteClick")
    /\ UNCHANGED <<EditFrame, titlePage, activeId, activeType, autocompleteItems,
                   autocompleteIndex, nextElId, focVars>>

\* updateTitlePage(field, value)
UpdateTitlePage(field, value) ==
    /\ UserCanAct
    /\ titlePage' = [f \in DOMAIN titlePage \cup {field} |->
                        IF f = field THEN value ELSE titlePage[f]]
    /\ MarkDirty
    /\ lastOp' = Op("UpdateTitlePage")
    /\ UNCHANGED <<EditFrame, elements, activeId, activeType, acVars, nextElId, focVars>>

(***************************************************************************)
(* Editor: the debounce timer and the explicit saves (lines 132-169 and    *)
(* 747-809), and the save endpoint (part_003 lines 411-426).               *)
(***************************************************************************)
TimeCap == DebounceTicks + 1

\* TickMs of time pass; a callback that is due runs before more time passes
Tick ==
    /\ page = "editor" /\ ~TimerDue /\ focusTimers = <<>>
    /\ saveTimer.armed \/ now < TimeCap
    /\ saveTimer' = IF saveTimer.armed THEN [saveTimer EXCEPT !.left = @ - 1] ELSE saveTimer
    /\ now' = Min(now + 1, TimeCap)
    /\ lastOp' = Op("Tick")
    /\ UNCHANGED <<variant, auxVars, uiVars, cmtVars, edVars, sugVars, shVars, acVars, verVars, page, nextElId,
                   srvVars, netVars, svVars, focVars>>

\* the callback of window.setTimeout(() => saveContent(), 2000)
TimerFire ==
    /\ page = "editor" /\ TimerDue
    /\ InTransit < MaxInflight
    /\ saveTimer' = NoTimer
    /\ SaveContent(saveTimer.closure, "TimerFire")
    /\ UNCHANGED <<variant, auxVars, uiVars, cmtVars, script, elements, titlePage, activeId, activeType, dirty,
                   sugVars, shVars, acVars, verVars, page, nextElId, srvVars, resps,
                   svVars, focVars, now>>

\* Ctrl/Cmd+S: handleKeyboard calls the saveNow its effect closed over
KeySaveWithin(cap) ==
    /\ page = "editor" /\ ~TimerDue
    /\ InTransit < cap
    /\ saveTimer' = NoTimer
    /\ dirty' = IF variant = 2 THEN TRUE ELSE dirty
    /\ SaveContent(KeyboardClosure, "KeySave")
    /\ UNCHANGED <<variant, auxVars, uiVars, cmtVars, script, elements, titlePage, activeId, activeType,
                   sugVars, shVars, acVars, verVars, page, nextElId, srvVars, resps,
                   svVars, focVars, now>>

KeySave == KeySaveWithin(MaxInflight)

\* the back button: saveNow(); window.location.href = '/dashboard'
BackButton ==
    /\ UserCanAct
    /\ InTransit < MaxInflight
    /\ saveTimer' = NoTimer
    /\ dirty' = IF variant = 2 THEN TRUE ELSE dirty
    /\ SaveContent(ButtonClosure, "BackButton")
    /\ page' = "left"
    /\ UNCHANGED <<variant, auxVars, uiVars, cmtVars, script, elements, titlePage, activeId, activeType,
                   sugVars, shVars, acVars, verVars, nextElId, srvVars, resps,
                   svVars, focVars, now>>

\* the cleanup of the mount effect (lines 126-129 and 755-759), run when the page is
\* unmounted by a route change: the listeners go and the pending timer is cleared
Unmount ==
    /\ page = "editor"
    /\ saveTimer' = NoTimer
    /\ page' = "left"
    /\ lastOp' = Op("Unmount")
    /\ UNCHANGED <<variant, auxVars, uiVars, cmtVars, edVars, sugVars, shVars, acVars, verVars,
                   nextElId, srvVars, netVars, svVars, focVars, now>>

\* the stored copies that equal the live content follow it
PutContent_aliased(s, b) ==
    [s EXCEPT !.content = b.content,
              !.versions = [i \in DOMAIN @ |->
                               IF @[i].content = s.content
                               THEN [@[i] EXCEPT !.content = b.content] ELSE @[i]]]

\* PUT /api/scripts/:id/content and PUT /api/shared/:token: s.content = b.content
PutContent(s, b) == [s EXCEPT !.content = b.content]

ServerPutContent ==
    /\ \E m \in BagToSet(reqs) :
        /\ m.kind = "save"
        /\ reqs' = Take(reqs, m)
        /\ kvScript' = PutContent(kvScript, m)
        /\ resps' = Send(resps, [kind |-> "saved",
                                 characters |-> extractCharacters(m.content),
                                 locations |-> extractLocations(m.content)])
    /\ lastOp' = Op("ServerPutContent")
    /\ UNCHANGED <<variant, auxVars, uiVars, cmtVars, edVars, sugVars, shVars, acVars, verVars, saveTimer, page,
                   nextElId, kvShares, nextVid, nextTok, svVars, focVars, now>>

\* saveContent after its await
SaveResponse ==
    /\ page = "editor"
    /\ \E m \in BagToSet(resps) :
        /\ m.kind = "saved"
        /\ resps' = Take(resps, m)
        /\ characters' = m.characters
        /\ locations' = m.locations
    /\ saving' = FALSE
    /\ dirty' = FALSE
    /\ lastOp' = Op("SaveResponse")
    /\ UNCHANGED <<variant, auxVars, uiVars, cmtVars, script, elements, titlePage, activeId, activeType, shVars,
                   acVars, verVars, saveTimer, page, nextElId, srvVars, reqs, svVars,
                   focVars, now>>

\* a response that arrives after the page was left has no one to receive it
ResponseAfterLeave ==
    /\ page = "left"
    /\ \E m \in BagToSet(resps) : resps' = Take(resps, m)
    /\ lastOp' = Op("ResponseAfterLeave")
    /\ UNCHANGED <<variant, auxVars, uiVars, cmtVars, edVars, sugVars, shVars, acVars, verVars, saveTimer, page,
                   nextElId, srvVars, reqs, svVars, focVars, now>>

(***************************************************************************)
(* Versions: createVersion, restoreVersion, deleteVersion (Editor.tsx      *)
(* lines 315-333 and 955-973) and their endpoints (part_003 lines          *)
(* 429-481).  A version is kept as its id and its content; its name, date  *)
(* and word count are not modelled.                                        *)
(***************************************************************************)
NoDocument == <<>>
NothingSeen == [stored |-> NoDocument, editor |-> NoDocument]

RECURSIVE Copies(_, _)
Copies(bag, S) ==
    IF S = {} THEN 0
    ELSE LET m == CHOOSE x \in S : TRUE IN CopiesIn(m, bag) + Copies(bag, S \ {m})
\* the requests of a kind that are in transit
Asked(kind) == Copies(reqs, {m \in BagToSet(reqs) : m.kind = kind})

CanRequest == InTransit < MaxInflight
CanCreateVersion == nextVid + Asked("createVersion") <= VersionCap + MaxNewVersions

\* (s.versions || []).find(v => v.id === vid)
HasVersion(s, vid) == \E i \in DOMAIN s.versions : s.versions[i].id = vid
VersionById(s, vid) == s.versions[CHOOSE i \in DOMAIN s.versions : s.versions[i].id = vid]

\* { id: genId(), ..., content: JSON.parse(JSON.stringify(s.content)) }
NewVersion(s, vid) == [id |-> vid, content |-> s.content]

\* s.versions.push(version); if (s.versions.length > 20) s.versions = s.versions.slice(-20)
PushVersion(s, version) ==
    LET pushed == Append(s.versions, version)
    IN [s EXCEPT !.versions =
            IF Len(pushed) > VersionCap
            THEN SubSeq(pushed, Len(pushed) - VersionCap + 1, Len(pushed))
            ELSE pushed]

\* s.content = JSON.parse(JSON.stringify(version.content))
RestoreContent(s, version) == [s EXCEPT !.content = version.content]

\* s.versions = (s.versions || []).filter(v => v.id !== vid)
RemoveVersion(s, vid) == [s EXCEPT !.versions = SelectSeq(@, LAMBDA v : v.id # vid)]

\* what the version handlers of the editor leave alone
VersionFrame == <<variant, auxVars, uiVars, cmtVars, script, activeId, activeType, saving, sugVars, shVars, acVars,
                  saveTimer, page, nextElId, svVars, focusTimers, now>>

\* createVersion from the 'Save Current as Version' button, up to its await
CreateVersion ==
    /\ UserCanAct /\ CanRequest /\ CanCreateVersion
    /\ reqs' = Send(reqs, [kind |-> "createVersion", forRestore |-> FALSE])
    /\ lastOp' = Op("CreateVersion")
    /\ UNCHANGED <<VersionFrame, elements, titlePage, dirty, focused, verVars, srvVars, resps>>

\* POST /api/scripts/:id/versions
ServerCreateVersion ==
    /\ \E m \in BagToSet(reqs) :
        /\ m.kind = "createVersion"
        /\ reqs' = Take(reqs, m)
        /\ resps' = Send(resps, [kind |-> "versionCreated", version |-> nextVid,
                                 forRestore |-> m.forRestore])
    /\ kvScript' = PushVersion(kvScript, NewVersion(kvScript, nextVid))
    /\ nextVid' = nextVid + 1
    /\ lastOp' = Op("ServerCreateVersion")
    /\ UNCHANGED <<VersionFrame, elements, titlePage, dirty, focused, verVars, kvShares,
                   nextTok>>

\* createVersion after its await, called from the button
CreateVersionResponse ==
    /\ page = "editor"
    /\ \E m \in BagToSet(resps) :
        /\ m.kind = "versionCreated" /\ ~m.forRestore
        /\ resps' = Take(resps, m)
        /\ versions' = Append(versions, m.version)
    /\ lastOp' = Op("CreateVersionResponse")
    /\ UNCHANGED <<VersionFrame, elements, titlePage, dirty, focused, restorePc, restoreVid,
                   restoreSeen, deleted, srvVars, reqs>>

\* restoreVersion(vid) from a listed version's 'Restore' button, confirmed, up to the
\* await inside the createVersion it calls; one restoreVersion runs at a time
RestoreVersion(vid) ==
    /\ UserCanAct /\ CanRequest /\ CanCreateVersion
    /\ restorePc = "idle" /\ vid \in Range(versions)
    /\ reqs' = Send(reqs, [kind |-> "createVersion", forRestore |-> TRUE])
    /\ restorePc' = "create"
    /\ restoreVid' = vid
    /\ restoreSeen' = [stored |-> IF HasVersion(kvScript, vid)
                                  THEN VersionById(kvScript, vid).content ELSE NoDocument,
                       editor |-> [elements |-> elements, titlePage |-> titlePage]]
    /\ lastOp' = Op("RestoreVersion")
    /\ UNCHANGED <<VersionFrame, elements, titlePage, dirty, focused, versions, deleted,
                   srvVars, resps>>

\* restoreVersion after 'await createVersion()': the version is listed, the restore is asked
RestoreAfterCreate ==
    /\ page = "editor" /\ restorePc = "create"
    /\ \E m \in BagToSet(resps) :
        /\ m.kind = "versionCreated" /\ m.forRestore
        /\ resps' = Take(resps, m)
        /\ versions' = Append(versions, m.version)
    /\ reqs' = Send(reqs, [kind |-> "restoreVersion", vid |-> restoreVid])
    /\ restorePc' = "restore"
    /\ lastOp' = Op("RestoreAfterCreate")
    /\ UNCHANGED <<VersionFrame, elements, titlePage, dirty, focused, restoreVid,
                   restoreSeen, deleted, srvVars>>

\* POST /api/scripts/:id/versions/:vid
ServerRestoreVersion ==
    /\ \E m \in BagToSet(reqs) :
        /\ m.kind = "restoreVersion"
        /\ reqs' = Take(reqs, m)
        /\ IF HasVersion(kvScript, m.vid)
           THEN /\ kvScript' = RestoreContent(kvScript, VersionById(kvScript, m.vid))
                /\ resps' = Send(resps, [kind |-> "restored", ok |-> TRUE,
                                         content |-> VersionById(kvScript, m.vid).content])
           ELSE \* 404 { error: "Version not found" }
                /\ kvScript' = kvScript
                /\ resps' = Send(resps, [kind |-> "restored", ok |-> FALSE,
                                         content |-> NoDocument])
    /\ lastOp' = Op("ServerRestoreVersion")
    /\ UNCHANGED <<VersionFrame, elements, titlePage, dirty, focused, verVars, kvShares,
                   nextVid, nextTok>>

\* restoreVersion after its second await: if (res.content) { ... }
RestoreResponse ==
    /\ page = "editor" /\ restorePc = "restore"
    /\ \E m \in BagToSet(resps) :
        /\ m.kind = "restored"
        /\ resps' = Take(resps, m)
        /\ IF m.ok
           THEN /\ elements' = IF HasElements(m.content) THEN m.content.elements ELSE <<>>
                /\ titlePage' = IF HasTitlePage(m.content) THEN m.content.titlePage
                                ELSE EmptyTitlePage
                /\ dirty' = FALSE
                /\ focused' = KeepFocus(elements')
           ELSE UNCHANGED <<elements, titlePage, dirty, focused>>
    /\ restorePc' = "idle"
    /\ lastOp' = Op("RestoreResponse")
    /\ UNCHANGED <<VersionFrame, versions, restoreVid, restoreSeen, deleted, srvVars, reqs>>

\* deleteVersion(vid) from a listed version's 'Delete' button, confirmed
DeleteVersion(vid) ==
    /\ UserCanAct /\ CanRequest
    /\ vid \in Range(versions) /\ Cardinality(deleted) < MaxDeletes
    /\ versions' = SelectSeq(versions, LAMBDA v : v # vid)
    /\ reqs' = Send(reqs, [kind |-> "deleteVersion", vid |-> vid])
    /\ deleted' = deleted \cup {vid}
    /\ restoreSeen' = IF restorePc # "idle" /\ vid = restoreVid
                      THEN [restoreSeen EXCEPT !.stored = NoDocument] ELSE restoreSeen
    /\ lastOp' = Op("DeleteVersion")
    /\ UNCHANGED <<VersionFrame, elements, titlePage, dirty, focused, restorePc, restoreVid,
                   srvVars, resps>>

\* DELETE /api/scripts/:id/versions/:vid; the editor does not read the response
ServerDeleteVersion ==
    /\ \E m \in BagToSet(reqs) :
        /\ m.kind = "deleteVersion"
        /\ reqs' = Take(reqs, m)
        /\ kvScript' = IF HasVersion(kvScript, m.vid) THEN RemoveVersion(kvScript, m.vid)
                       ELSE kvScript
    /\ lastOp' = Op("ServerDeleteVersion")
    /\ UNCHANGED <<VersionFrame, elements, titlePage, dirty, focused, verVars, kvShares,
                   nextVid, nextTok, resps>>

(***************************************************************************)
(* Sharing: enableSharing, disableSharing (Editor.tsx lines 335-344 and    *)
(* 975-984), their endpoint (part_003 lines 540-565), the shared view      *)
(* (SharedView.tsx) and its endpoint (part_003 lines 568-593).             *)
(***************************************************************************)
\* the ["shares", token] entries of a script: kv.set(["shares", s.shareToken], {..., mode})
SharesOf(s) ==
    IF s.shareToken = 0 THEN {} ELSE {[token |-> s.shareToken, mode |-> s.shareMode]}

HasShare(token) == \E sh \in kvShares : sh.token = token
ShareOf(token) == CHOOSE sh \in kvShares : sh.token = token
\* kv.set(["shares", token], ...) and kv.delete(["shares", token])
SetShare(shares, token, mode) ==
    {sh \in shares : sh.token # token} \cup {[token |-> token, mode |-> mode]}
DeleteShare(shares, token) == {sh \in shares : sh.token # token}

ShareModes == {"read", "edit"}

CanShare == nextTok + Asked("share") <= MaxTokens

\* what the sharing handlers of the editor leave alone
ShareFrame == <<variant, auxVars, uiVars, cmtVars, edVars, sugVars, acVars, verVars, saveTimer, page, nextElId, svVars,
                focVars, now>>

\* enableSharing(mode), from the buttons shown while shareToken is null, up to its await
EnableSharingWithin(cap, mode) ==
    /\ UserCanAct /\ InTransit < cap /\ CanShare
    /\ shareToken = 0
    /\ reqs' = Send(reqs, [kind |-> "share", mode |-> mode])
    /\ lastOp' = Op("EnableSharing")
    /\ UNCHANGED <<ShareFrame, shVars, srvVars, resps>>

EnableSharing(mode) == EnableSharingWithin(MaxInflight, mode)

\* POST /api/scripts/:id/share
ServerShare ==
    /\ \E m \in BagToSet(reqs) :
        /\ m.kind = "share"
        /\ reqs' = Take(reqs, m)
        /\ LET token == IF kvScript.shareToken = 0 THEN nextTok ELSE kvScript.shareToken
           IN /\ kvScript' = [kvScript EXCEPT !.shareToken = token, !.shareMode = m.mode]
              /\ kvShares' = SetShare(kvShares, token, m.mode)
              /\ nextTok' = IF kvScript.shareToken = 0 THEN nextTok + 1 ELSE nextTok
              /\ resps' = Send(resps, [kind |-> "shared", shareToken |-> token,
                                       shareMode |-> m.mode])
    /\ lastOp' = Op("ServerShare")
    /\ UNCHANGED <<ShareFrame, shVars, nextVid>>

\* enableSharing after its await
ShareResponse ==
    /\ page = "editor"
    /\ \E m \in BagToSet(resps) :
        /\ m.kind = "shared"
        /\ resps' = Take(resps, m)
        /\ shareToken' = m.shareToken
        /\ shareMode' = m.shareMode
    /\ lastOp' = Op("ShareResponse")
    /\ UNCHANGED <<ShareFrame, srvVars, reqs>>

\* disableSharing, from 'Stop Sharing', up to its await
DisableSharing ==
    /\ UserCanAct /\ CanRequest
    /\ shareToken # 0
    /\ reqs' = Send(reqs, [kind |-> "unshare"])
    /\ lastOp' = Op("DisableSharing")
    /\ UNCHANGED <<ShareFrame, shVars, srvVars, resps>>

\* DELETE /api/scripts/:id/share
ServerUnshare ==
    /\ \E m \in BagToSet(reqs) :
        /\ m.kind = "unshare"
        /\ reqs' = Take(reqs, m)
    /\ kvShares' = IF kvScript.shareToken # 0 THEN DeleteShare(kvShares, kvScript.shareToken)
                   ELSE kvShares
    /\ kvScript' = [kvScript EXCEPT !.shareToken = 0, !.shareMode = "null"]
    /\ resps' = Send(resps, [kind |-> "unshared"])
    /\ lastOp' = Op("ServerUnshare")
    /\ UNCHANGED <<ShareFrame, shVars, nextVid, nextTok>>

\* disableSharing after its await
UnshareResponse ==
    /\ page = "editor"
    /\ \E m \in BagToSet(resps) :
        /\ m.kind = "unshared"
        /\ resps' = Take(resps, m)
    /\ shareToken' = 0
    /\ shareMode' = "null"
    /\ lastOp' = Op("UnshareResponse")
    /\ UNCHANGED <<ShareFrame, srvVars, reqs>>

\* what the shared view and its endpoint leave alone
ViewFrame == <<variant, auxVars, uiVars, cmtVars, edVars, sugVars, shVars, acVars, verVars, saveTimer, page, nextElId,
               focVars, now>>

\* SharedView: loadShared for a link that was issued, with GET /api/shared/:token
LoadShared(token) ==
    /\ token \in 1..(nextTok - 1)
    /\ svToken' = token
    /\ IF HasShare(token)
       THEN /\ svLoaded' = TRUE
            /\ svElements' = IF HasElements(kvScript.content) THEN kvScript.content.elements
                             ELSE <<>>
            /\ svMode' = ShareOf(token).mode
       ELSE \* { error: "Share link not found or expired" }: the error page replaces the script
            /\ svLoaded' = FALSE
            /\ svElements' = <<>>
            /\ svMode' = "read"
    /\ lastOp' = Op("LoadShared")
    /\ UNCHANGED <<ViewFrame, srvVars, netVars>>

\* SharedView: handleInput(elId, val) for the i-th element, up to its await
SharedHandleInput(i, val) ==
    /\ svLoaded /\ i \in DOMAIN svElements
    /\ IF svMode # "edit"
       THEN UNCHANGED <<svElements, reqs>>
       ELSE /\ CanRequest
            /\ svElements' = SetContent(svElements, svElements[i].id, val)
            /\ reqs' = Send(reqs, [kind |-> "sharedPut", token |-> svToken,
                                   content |-> [elements |-> svElements']])
    /\ lastOp' = Op("SharedHandleInput")
    /\ UNCHANGED <<ViewFrame, svLoaded, svToken, svMode, srvVars, resps>>

\* any client that holds a link: PUT /api/shared/:token with a content of its own
DirectSharedPut(token, val) ==
    /\ token \in 1..(nextTok - 1) /\ CanRequest
    /\ reqs' = Send(reqs, [kind |-> "sharedPut", token |-> token,
                           content |-> [elements |-> <<[id |-> 1, type |-> "action",
                                                        content |-> val]>>]])
    /\ lastOp' = Op("DirectSharedPut")
    /\ UNCHANGED <<ViewFrame, svVars, srvVars, resps>>

\* PUT /api/shared/:token: if (m === "PUT" && share.mode === 'edit'); the view does not
\* read the response
ServerSharedPut ==
    /\ \E m \in BagToSet(reqs) :
        /\ m.kind = "sharedPut"
        /\ reqs' = Take(reqs, m)
        /\ kvScript' = IF HasShare(m.token) /\ ShareOf(m.token).mode = "edit"
                       THEN PutContent(kvScript, m) ELSE kvScript
    /\ lastOp' = Op("ServerSharedPut")
    /\ UNCHANGED <<ViewFrame, svVars, kvShares, nextVid, nextTok, resps>>

(***************************************************************************)
(* Failed saves: the save endpoint answers with an error (part_003 lines   *)
(* 413-418), or the request never reaches it and the service worker        *)
(* answers in its place (part_004 lines 14-20), or fetch itself rejects.   *)
(***************************************************************************)
SaveErrors == {"Offline", "Unauthorized", "Forbidden", "Not found"}

\* the save request is answered by json({ error }): nothing is stored
RejectSave(error) ==
    /\ \E m \in BagToSet(reqs) :
        /\ m.kind = "save"
        /\ reqs' = Take(reqs, m)
        /\ resps' = Send(resps, [kind |-> "saveError", error |-> error])
    /\ lastOp' = Op("RejectSave")
    /\ UNCHANGED <<variant, auxVars, uiVars, cmtVars, edVars, sugVars, shVars, acVars, verVars, saveTimer, page,
                   nextElId, srvVars, svVars, focVars, now>>

\* saveContent after its await, when res is { error }: api does not look at the status,
\* res.characters and res.locations are undefined, the rest runs as after a success
SaveErrorResponse ==
    /\ page = "editor"
    /\ \E m \in BagToSet(resps) :
        /\ m.kind = "saveError"
        /\ resps' = Take(resps, m)
    /\ saving' = FALSE
    /\ dirty' = FALSE
    /\ lastOp' = Op("SaveErrorResponse")
    /\ UNCHANGED <<variant, auxVars, uiVars, cmtVars, script, elements, titlePage, activeId, activeType, sugVars,
                   shVars, acVars, verVars, saveTimer, page, nextElId, srvVars, reqs, svVars,
                   focVars, now>>

\* fetch rejects (no service worker answers): api throws inside saveContent, whose promise
\* no caller awaits in a try; nothing after the await runs
SaveRejected ==
    /\ \E m \in BagToSet(reqs) :
        /\ m.kind = "save"
        /\ reqs' = Take(reqs, m)
    /\ lastOp' = Op("SaveRejected")
    /\ UNCHANGED <<variant, auxVars, uiVars, cmtVars, edVars, sugVars, shVars, acVars, verVars, saveTimer, page,
                   nextElId, srvVars, resps, svVars, focVars, now>>

(***************************************************************************)
(* Comments: addComment (Editor.tsx lines 296-303 and 936-943) and its     *)
(* endpoint (part_003 lines 484-510).  The save endpoint with its kv.get   *)
(* and its kv.set as the two steps they are: between them the handler      *)
(* awaits parseBody, and other handlers run.                               *)
(***************************************************************************)
CommentInTransit ==
    \/ \E m \in BagToSet(reqs) : m.kind = "addComment"
    \/ \E m \in BagToSet(resps) : m.kind = "commentAdded"

\* addComment up to its await, with a text in the comment box
AddComment ==
    /\ UserCanAct /\ activeId # 0
    /\ InTransit < MaxWithComment /\ ~CommentInTransit /\ nextCid <= MaxComments
    /\ reqs' = Send(reqs, [kind |-> "addComment", elementId |-> activeId])
    /\ lastOp' = Op("AddComment")
    /\ UNCHANGED <<variant, auxVars, uiVars, cmtVars, edVars, sugVars, shVars, acVars, verVars,
                   saveTimer, page, nextElId, srvVars, resps, svVars, focVars, now>>

\* s.comments.push(comment)
PushComment(s, comment) == [s EXCEPT !.comments = Append(@, comment)]

\* POST /api/scripts/:id/comments
ServerAddComment ==
    /\ \E m \in BagToSet(reqs) :
        /\ m.kind = "addComment"
        /\ reqs' = Take(reqs, m)
        /\ LET comment == [id |-> nextCid, elementId |-> m.elementId, resolved |-> FALSE]
           IN /\ kvScript' = PushComment(kvScript, comment)
              /\ resps' = Send(resps, [kind |-> "commentAdded", comment |-> comment])
    /\ nextCid' = nextCid + 1
    /\ lastOp' = Op("ServerAddComment")
    /\ UNCHANGED <<variant, auxVars, uiVars, comments, handlers, edVars, sugVars, shVars, acVars,
                   verVars, saveTimer, page, nextElId, kvShares, nextVid, nextTok, svVars,
                   focVars, now>>

\* addComment after its await: if (res.comment) setComments(prev => [...prev, res.comment])
CommentResponse ==
    /\ page = "editor"
    /\ \E m \in BagToSet(resps) :
        /\ m.kind = "commentAdded"
        /\ resps' = Take(resps, m)
        /\ comments' = Append(comments, m.comment)
    /\ lastOp' = Op("CommentResponse")
    /\ UNCHANGED <<variant, auxVars, uiVars, handlers, nextCid, edVars, sugVars, shVars, acVars,
                   verVars, saveTimer, page, nextElId, srvVars, reqs, svVars, focVars, now>>

\* PUT /api/scripts/:id/content up to 'const b = await parseBody(req)': s is what
\* 'await kv.get(["scripts", id])' gave
ServerPutContentGet ==
    /\ \E m \in BagToSet(reqs) :
        /\ m.kind = "save"
        /\ reqs' = Take(reqs, m)
        /\ handlers' = Send(handlers, [req |-> m, s |-> kvScript])
    /\ lastOp' = Op("ServerPutContentGet")
    /\ UNCHANGED <<variant, auxVars, uiVars, comments, nextCid, edVars, sugVars, shVars, acVars,
                   verVars, saveTimer, page, nextElId, srvVars, resps, svVars, focVars, now>>

\* PUT /api/scripts/:id/content from 's.content = b.content' on:
\* await kv.set(["scripts", id], s)
ServerPutContentSet ==
    /\ \E h \in BagToSet(handlers) :
        /\ handlers' = Take(handlers, h)
        /\ kvScript' = PutContent(h.s, h.req)
        /\ resps' = Send(resps, [kind |-> "saved",
                                 characters |-> extractCharacters(h.req.content),
                                 locations |-> extractLocations(h.req.content)])
    /\ lastOp' = Op("ServerPutContentSet")
    /\ UNCHANGED <<variant, auxVars, uiVars, comments, nextCid, edVars, sugVars, shVars, acVars,
                   verVars, saveTimer, page, nextElId, kvShares, nextVid, nextTok, reqs,
                   svVars, focVars, now>>

(***************************************************************************)
(* Comments: resolveComment and deleteComment (Editor.tsx lines 305-313    *)
(* and 945-953), their endpoints (part_003 lines 512-537) and the cards of *)
(* the comments modal (lines 591-604).  Nothing follows the await of the   *)
(* two handlers, so their responses are not kept.                          *)
(***************************************************************************)
\* resolveComment(cid, resolved) from a card's Resolve / Unresolve button
ResolveComment(cid, resolved) ==
    /\ UserCanAct /\ modal = "comments"
    /\ InTransit < MaxWithComment
    /\ comments' = [i \in DOMAIN comments |->
                       IF comments[i].id = cid THEN [comments[i] EXCEPT !.resolved = resolved]
                       ELSE comments[i]]
    /\ reqs' = Send(reqs, [kind |-> "resolveComment", cid |-> cid, resolved |-> resolved])
    /\ lastOp' = Op("ResolveComment")
    /\ UNCHANGED <<variant, auxVars, uiVars, handlers, nextCid, edVars, sugVars, shVars, acVars,
                   verVars, saveTimer, page, nextElId, srvVars, resps, svVars, focVars, now>>

IsNotComment(cid, c) == c.id # cid

\* comments.filter(c => c.id !== cid)
WithoutComment(cs, cid) ==
    LET keep == {i \in DOMAIN cs : IsNotComment(cid, cs[i])}
    IN [r \in 1..Cardinality(keep) |->
           cs[CHOOSE i \in keep : Cardinality({j \in keep : j < i}) = r - 1]]

\* deleteComment(cid) from a card's Delete button
DeleteComment(cid) ==
    /\ UserCanAct /\ modal = "comments"
    /\ InTransit < MaxWithComment
    /\ comments' = WithoutComment(comments, cid)
    /\ reqs' = Send(reqs, [kind |-> "deleteComment", cid |-> cid])
    /\ lastOp' = Op("DeleteComment")
    /\ UNCHANGED <<variant, auxVars, uiVars, handlers, nextCid, edVars, sugVars, shVars, acVars,
                   verVars, saveTimer, page, nextElId, srvVars, resps, svVars, focVars, now>>

\* PUT /api/scripts/:id/comments/:cid with { resolved }: 404 without the comment
ServerResolveComment ==
    /\ \E m \in BagToSet(reqs) :
        /\ m.kind = "resolveComment"
        /\ reqs' = Take(reqs, m)
        /\ kvScript' = [kvScript EXCEPT !.comments =
                           [i \in DOMAIN @ |->
                               IF @[i].id = m.cid THEN [@[i] EXCEPT !.resolved = m.resolved]
                               ELSE @[i]]]
    /\ lastOp' = Op("ServerResolveComment")
    /\ UNCHANGED <<variant, auxVars, uiVars, cmtVars, edVars, sugVars, shVars, acVars, verVars,
                   saveTimer, page, nextElId, kvShares, nextVid, nextTok, resps, svVars,
                   focVars, now>>

\* DELETE /api/scripts/:id/comments/:cid
ServerDeleteComment ==
    /\ \E m \in BagToSet(reqs) :
        /\ m.kind = "deleteComment"
        /\ reqs' = Take(reqs, m)
        /\ kvScript' = [kvScript EXCEPT !.comments = WithoutComment(@, m.cid)]
    /\ lastOp' = Op("ServerDeleteComment")
    /\ UNCHANGED <<variant, auxVars, uiVars, cmtVars, edVars, sugVars, shVars, acVars, verVars,
                   saveTimer, page, nextElId, kvShares, nextVid, nextTok, resps, svVars,
                   focVars, now>>

DeletedMark == <<"(", "d", "e", "l", "e", "t", "e", "d", ")">>
Ellipsis == <<".", ".", ".">>
\* what evaluating a JSX expression gives: its text, or the TypeError it throws
Shown(text) == [raised |-> FALSE, text |-> text]
TypeError == [raised |-> TRUE, text |-> <<>>]

\* the context line with el.content.slice(0, 50): a property of undefined is read when
\* no element has the comment's elementId
CommentContext_unchained(c) ==
    IF c.elementId \notin Ids(elements) THEN TypeError
    ELSE IF Slice0(ElementById(elements, c.elementId).content, 50) = <<>>
    THEN Shown(DeletedMark \o Ellipsis)
    ELSE Shown(Slice0(ElementById(elements, c.elementId).content, 50) \o Ellipsis)

\* const el = elements.find(e => e.id === c.elementId);
\* {el?.content?.slice(0, 50) || '(deleted)'}...
CommentContext(c) ==
    IF c.elementId \notin Ids(elements) THEN Shown(DeletedMark \o Ellipsis)
    ELSE IF Slice0(ElementById(elements, c.elementId).content, 50) = <<>>
    THEN Shown(DeletedMark \o Ellipsis)
    ELSE Shown(Slice0(ElementById(elements, c.elementId).content, 50) \o Ellipsis)

\* comments.map(c => <div key={c.id} className="comment-card"> ...)
CommentCards ==
    [i \in DOMAIN comments |->
        [key |-> comments[i].id, context |-> CommentContext(comments[i]),
         resolved |-> comments[i].resolved]]

(***************************************************************************)
(* Export: exportFountain, exportMarkdown, exportPlainText (Editor.tsx     *)
(* lines 357-401 and 997-1041) and the shared view's exportPlainText       *)
(* (SharedView.tsx lines 61-76).  A text is the sequence of its            *)
(* characters.                                                             *)
(***************************************************************************)
NL == "\n"
\* U+2014, one character
EmDash == "em-dash"
\* String.prototype.repeat
Repeat(c, n) == [i \in 1..n |-> c]

\* script.title: the title POST /api/scripts stores when none is given
ScriptTitle == Untitled
\* titlePage.title, titlePage.writtenBy ('' when the field is missing or empty)
TitleField(tp, f) == IF f \in DOMAIN tp THEN tp[f] ELSE <<>>
\* titlePage.title || script?.title || 'Untitled'
HeaderTitle(tp) == IF TitleField(tp, "title") # <<>> THEN TitleField(tp, "title") ELSE ScriptTitle

\* the case of exportFountain's switch an element takes
FountainSegment(el) ==
    CASE el.type = "scene-heading" -> <<NL>> \o ToUpperCase(el.content) \o <<NL, NL>>
      [] el.type = "action" -> el.content \o <<NL, NL>>
      [] el.type = "character" -> <<NL>> \o ToUpperCase(el.content) \o <<NL>>
      [] el.type = "dialogue" -> el.content \o <<NL, NL>>
      [] el.type = "parenthetical" -> <<"(">> \o el.content \o <<")", NL>>
      [] el.type = "transition" -> <<NL, ">", " ">> \o ToUpperCase(el.content) \o <<NL, NL>>
      [] OTHER -> el.content \o <<NL, NL>>

\* the case of exportMarkdown's switch an element takes
MarkdownSegment(el) ==
    CASE el.type = "scene-heading" -> <<"#", "#", " ">> \o el.content \o <<NL, NL>>
      [] el.type = "character" -> <<"*", "*">> \o ToUpperCase(el.content) \o <<"*", "*", NL, NL>>
      [] el.type = "dialogue" -> <<">", " ">> \o el.content \o <<NL, NL>>
      [] el.type = "chapter-heading" -> <<"#", " ">> \o el.content \o <<NL, NL>>
      [] el.type = "poem-title" -> <<"#", "#", " ">> \o el.content \o <<NL, NL>>
      [] OTHER -> el.content \o <<NL, NL>>

\* the rule line around a scene heading: '---' in copy 1, twenty dashes in copy 2 and in
\* the shared view
RuleLine(long) == IF long THEN Repeat(EmDash, 20) ELSE <<"-", "-", "-">>

\* the plain text without its else branch: an element of another type emits nothing
PlainTextSegment_dropsOthers(el, long) ==
    IF el.type = "scene-heading"
    THEN <<NL>> \o RuleLine(long) \o <<NL>> \o ToUpperCase(el.content) \o <<NL>>
             \o RuleLine(long) \o <<NL, NL>>
    ELSE IF el.type = "character"
    THEN <<NL>> \o Repeat(" ", 8) \o ToUpperCase(el.content) \o <<NL>>
    ELSE IF el.type = "dialogue"
    THEN Repeat(" ", 4) \o el.content \o <<NL>>
    ELSE <<>>

\* the branch of exportPlainText's if chain an element takes
PlainTextSegment(el, long) ==
    IF el.type = "scene-heading"
    THEN <<NL>> \o RuleLine(long) \o <<NL>> \o ToUpperCase(el.content) \o <<NL>>
             \o RuleLine(long) \o <<NL, NL>>
    ELSE IF el.type = "character"
    THEN <<NL>> \o Repeat(" ", 8) \o ToUpperCase(el.content) \o <<NL>>
    ELSE IF el.type = "dialogue"
    THEN Repeat(" ", 4) \o el.content \o <<NL>>
    ELSE el.content \o <<NL, NL>>

ExportFormats == {"fountain", "markdown", "text", "shared-text"}

Segment(el, format) ==
    CASE format = "fountain" -> FountainSegment(el)
      [] format = "markdown" -> MarkdownSegment(el)
      [] format = "text" -> PlainTextSegment(el, variant = 2)
      [] format = "shared-text" -> PlainTextSegment(el, TRUE)

\* what each export puts before the elements
Header(tp, format) ==
    CASE format = "fountain" ->
            (IF TitleField(tp, "title") # <<>>
             THEN <<"T", "i", "t", "l", "e", ":", " ">> \o TitleField(tp, "title") \o <<NL>>
             ELSE <<>>)
            \o (IF TitleField(tp, "writtenBy") # <<>>
                THEN <<"C", "r", "e", "d", "i", "t", ":", " ", "W", "r", "i", "t", "t", "e", "n",
                       " ", "b", "y", NL, "A", "u", "t", "h", "o", "r", ":", " ">>
                     \o TitleField(tp, "writtenBy") \o <<NL>>
                ELSE <<>>)
            \o <<NL>>
      [] format = "markdown" ->
            <<"#", " ">> \o HeaderTitle(tp) \o <<NL, NL>>
            \o (IF TitleField(tp, "writtenBy") # <<>>
                THEN <<"*", "b", "y", " ">> \o TitleField(tp, "writtenBy")
                     \o <<"*", NL, NL, "-", "-", "-", NL, NL>>
                ELSE <<>>)
      [] format = "text" -> HeaderTitle(tp) \o <<NL>> \o Repeat("=", 40) \o <<NL, NL>>
      [] format = "shared-text" -> ScriptTitle \o <<NL>> \o Repeat("=", 40) \o <<NL, NL>>

\* for (const el of elements) out += ...
RECURSIVE Emit(_, _, _)
Emit(out, els, format) ==
    IF els = <<>> THEN out
    ELSE Emit(out \o Segment(Head(els), format), Tail(els), format)

Render(els, tp, format) == Emit(Header(tp, format), els, format)

Extension(format) ==
    CASE format = "fountain" -> <<".", "f", "o", "u", "n", "t", "a", "i", "n">>
      [] format = "markdown" -> <<".", "m", "d">>
      [] OTHER -> <<".", "t", "x", "t">>

\* downloadFile(out, `${script?.title || 'script'}.ext`, mime)
DownloadOf(els, tp, format) ==
    [text |-> Render(els, tp, format),
     filename |-> ScriptTitle \o Extension(format),
     mime |-> IF format = "markdown" THEN "text/markdown" ELSE "text/plain"]

\* the buttons of the export modal: export...(); setModal(null)
Export(format) ==
    /\ UserCanAct
    /\ format \in {"fountain", "markdown", "text"}
    /\ format = "fountain" => getCategory(script.type) = "screenplay"
    /\ download' = DownloadOf(elements, titlePage, format)
    /\ modal' = "null"
    /\ lastOp' = Op("Export")
    /\ UNCHANGED <<variant, analysis, authVars, focusMode, cmtVars, edVars, sugVars, shVars, acVars, verVars,
                   saveTimer, page, nextElId, srvVars, netVars, svVars, focVars, now>>

\* SharedView: the export button
SharedExport ==
    /\ svLoaded
    /\ download' = DownloadOf(svElements, EmptyTitlePage, "shared-text")
    /\ lastOp' = Op("SharedExport")
    /\ UNCHANGED <<variant, analysis, authVars, uiVars, cmtVars, edVars, sugVars, shVars, acVars, verVars,
                   saveTimer, page, nextElId, srvVars, netVars, svVars, focVars, now>>

(***************************************************************************)
(* Editor: the outline (getOutlineItems, lines 413-416 and 1053-1056; its  *)
(* modal, lines 551-562), jumpToElement (418-424) and the toolbar buttons  *)
(* that open a modal (454-457).                                            *)
(***************************************************************************)
\* the outline of a screenplay, whatever the genre
HeadingType_screenplay == "scene-heading"

HeadingType ==
    IF getCategory(script.type) = "fiction" THEN "chapter-heading"
    ELSE IF getCategory(script.type) = "poetry" THEN "poem-title"
    ELSE "scene-heading"

IsHeadingItem(x) == x.el.type = HeadingType

\* elements.map((el, i) => ({ el, index: i })).filter(x => x.el.type === headingType)
getOutlineItems ==
    SelectSeq([i \in DOMAIN elements |-> [el |-> elements[i], index |-> i - 1]], IsHeadingItem)

EmptyMark == <<"(", "e", "m", "p", "t", "y", ")">>

\* outlineItems.map((item, i) => <button key={item.el.id}> {i + 1} {item.el.content || '(empty)'}
OutlineRows ==
    [r \in DOMAIN getOutlineItems |->
        [number |-> (r - 1) + 1,
         key |-> getOutlineItems[r].el.id,
         text |-> IF getOutlineItems[r].el.content = <<>> THEN EmptyMark
                  ELSE getOutlineItems[r].el.content]]

\* the toolbar buttons: setModal('outline'), setModal('comments')
OpenModal(name) ==
    /\ UserCanAct
    /\ modal' = name
    /\ lastOp' = Op("OpenModal")
    /\ UNCHANGED <<variant, auxVars, focusMode, cmtVars, edVars, sugVars, shVars, acVars, verVars,
                   saveTimer, page, nextElId, srvVars, netVars, svVars, focVars, now>>

\* jumpToElement(elId), from an outline row or a comment: setActiveId, then div?.focus()
\* on the element of that id, whose focus event runs handleFocus, then setModal(null)
JumpToElement(elId) ==
    /\ UserCanAct
    /\ activeId' = elId
    /\ IF elId \in Ids(elements) /\ elId # focused
       THEN /\ focused' = elId
            /\ activeType' = ElementById(elements, elId).type
       ELSE UNCHANGED <<focused, activeType>>
    /\ modal' = "null"
    /\ lastOp' = Op("JumpToElement")
    /\ UNCHANGED <<variant, auxVars, focusMode, cmtVars, script, elements, titlePage, dirty, saving,
                   sugVars, shVars, acVars, verVars, saveTimer, page, nextElId, srvVars, netVars,
                   svVars, focusTimers, now>>

(***************************************************************************)
(* Word counts: the editor's wordCount (Editor.tsx lines 426-427 and       *)
(* 1066-1067) and the server's countScriptWords (part_003 lines 59-62).    *)
(***************************************************************************)
\* the editor's count without its filter: the pieces of the split, empty ones included
EditorWords_unfiltered(content) == Len(SplitSpaces(content))

\* el.content?.split(/\s+/).filter(w => w).length || 0
EditorWords(content) == Len(SelectSeq(SplitSpaces(content), NonEmpty))

RECURSIVE SumEditorWords(_)
SumEditorWords(els) ==
    IF els = <<>> THEN 0 ELSE EditorWords(Head(els).content) + SumEditorWords(Tail(els))

\* const wordCount = elements.reduce((sum, el) => sum + ..., 0), at every render
wordCount == SumEditorWords(elements)

RECURSIVE SumCountWords(_)
SumCountWords(els) ==
    IF els = <<>> THEN 0 ELSE countWords(Head(els).content) + SumCountWords(Tail(els))

\* countScriptWords(content)
countScriptWords(content) ==
    IF ~HasElements(content) THEN 0 ELSE SumCountWords(content.elements)

(***************************************************************************)
(* Server: accounts (part_003 lines 132-187 and 609-622).  The register    *)
(* handler awaits between counting the users and storing the new one, and  *)
(* other handlers run in between.  User names are as the handlers hold     *)
(* them after toLowerCase().trim(); every login carries the right          *)
(* password.                                                               *)
(***************************************************************************)
Usernames == {"ann", "bob"}
MaxUsers == 2
MaxSessions == 3

\* { uid, exp }: exp lies 30 days ahead when the session is stored
NewSession(uid) == [uid |-> uid, expired |-> FALSE]
\* the value under a token after kv.delete
NoSession == [uid |-> 0, expired |-> TRUE]

\* sess.value of 'await kv.get(["sessions", token])'; token 0 is a request without cookie
HasSession(token) == token \in DOMAIN kvSessions /\ kvSessions[token] # NoSession

\* getUser(req): the id of the session's user, 0 for null
getUser(token) ==
    IF ~HasSession(token) THEN 0
    ELSE IF kvSessions[token].expired THEN 0
    ELSE IF kvSessions[token].uid \in DOMAIN kvUsers THEN kvSessions[token].uid
    ELSE 0

\* getUser: if (new Date(s.exp) < new Date()) await kv.delete(["sessions", token])
SessionsAfterGetUser(token) ==
    IF HasSession(token) /\ kvSessions[token].expired
    THEN [kvSessions EXCEPT ![token] = NoSession]
    ELSE kvSessions

\* POST /api/auth/register up to 'const id = genId()': the name is free, the users
\* are counted
RegisterCount(username) ==
    /\ username \notin DOMAIN kvUsersByName
    /\ Len(kvUsers) + BagCardinality(handlers) < MaxUsers
    /\ handlers' = Send(handlers, [kind |-> "register", username |-> username,
                                   count |-> Len(kvUsers)])
    /\ lastOp' = Op("RegisterCount")
    /\ UNCHANGED <<variant, auxVars, uiVars, comments, nextCid, edVars, sugVars, shVars, acVars,
                   verVars, saveTimer, page, nextElId, srvVars, netVars, svVars, focVars, now>>

\* const isFirstUser = count === 0; role and status of the new user
NewUser(username, count) ==
    [username |-> username,
     role |-> IF count = 0 THEN "admin" ELSE "user",
     status |-> IF count = 0 THEN "approved" ELSE "pending"]

\* POST /api/auth/register from 'const user = ...' on: the user and its name are
\* stored, and a session if (isFirstUser)
RegisterStore ==
    /\ \E h \in BagToSet(handlers) :
        /\ h.kind = "register"
        /\ handlers' = Take(handlers, h)
        /\ kvUsers' = Append(kvUsers, NewUser(h.username, h.count))
        /\ kvUsersByName' = [n \in DOMAIN kvUsersByName \cup {h.username} |->
                                IF n = h.username THEN Len(kvUsers) + 1 ELSE kvUsersByName[n]]
        /\ kvSessions' = IF h.count = 0 THEN Append(kvSessions, NewSession(Len(kvUsers) + 1))
                         ELSE kvSessions
    /\ lastOp' = Op("RegisterStore")
    /\ UNCHANGED <<variant, download, analysis, uiVars, comments, nextCid, edVars, sugVars, shVars,
                   acVars, verVars, saveTimer, page, nextElId, srvVars, netVars, svVars, focVars,
                   now>>

\* POST /api/auth/login with the user's password: 401 for an unknown name, 403 while
\* the status is pending, a session otherwise
Login(username) ==
    /\ Len(kvSessions) < MaxSessions
    /\ kvSessions' =
          IF username \in DOMAIN kvUsersByName
             /\ kvUsers[kvUsersByName[username]].status # "pending"
          THEN Append(kvSessions, NewSession(kvUsersByName[username]))
          ELSE kvSessions
    /\ lastOp' = Op("Login")
    /\ UNCHANGED <<variant, download, analysis, kvUsers, kvUsersByName, uiVars, cmtVars, edVars,
                   sugVars, shVars, acVars, verVars, saveTimer, page, nextElId, srvVars, netVars,
                   svVars, focVars, now>>

UserStatuses == {"approved", "pending"}

\* PUT /api/admin/users/:id with { status } and the cookie of session token: 403 unless
\* the session's user is an admin, 404 without the user
AdminSetStatus(token, uid, status) ==
    /\ token \in DOMAIN kvSessions /\ uid \in DOMAIN kvUsers
    /\ kvUsers' = IF getUser(token) # 0 /\ kvUsers[getUser(token)].role = "admin"
                  THEN [kvUsers EXCEPT ![uid].status = status]
                  ELSE kvUsers
    /\ kvSessions' = SessionsAfterGetUser(token)
    /\ lastOp' = Op("AdminSetStatus")
    /\ UNCHANGED <<variant, download, analysis, kvUsersByName, uiVars, cmtVars, edVars,
                   sugVars, shVars, acVars, verVars, saveTimer, page, nextElId, srvVars, netVars,
                   svVars, focVars, now>>

\* the time of a session's exp passes
ExpireSession(token) ==
    /\ HasSession(token) /\ ~kvSessions[token].expired
    /\ kvSessions' = [kvSessions EXCEPT ![token].expired = TRUE]
    /\ lastOp' = Op("ExpireSession")
    /\ UNCHANGED <<variant, download, analysis, kvUsers, kvUsersByName, uiVars, cmtVars, edVars,
                   sugVars, shVars, acVars, verVars, saveTimer, page, nextElId, srvVars, netVars,
                   svVars, focVars, now>>

\* the guard without its test of the owner
Authorize_anyUser(u, s) == IF u = 0 THEN 401 ELSE 200

\* the guard every /api/scripts/:id route starts with: 401 without a user, 403 for a
\* user that is not the owner (the script of the model exists: no 404)
Authorize(u, s) ==
    IF u = 0 THEN 401
    ELSE IF s.ownerId # u THEN 403
    ELSE 200

Endpoints ==
    {"GET /api/scripts/:id", "PUT /api/scripts/:id/content", "POST /api/scripts/:id/versions",
     "POST /api/scripts/:id/comments", "DELETE /api/scripts/:id/share"}

\* the content a PUT carries
RequestBody ==
    [content |-> [elements |-> <<[id |-> 1, type |-> "action", content |-> <<"x">>]>>]]

\* a request to one of the script's routes with the cookie of session token, handled
\* in one step; the answer is kept in the history
ScriptRequest(token, endpoint) ==
    LET u == getUser(token)
        status == Authorize(u, kvScript)
        data == IF status = 200 /\ endpoint = "GET /api/scripts/:id" THEN kvScript.content
                ELSE NoDocument
    IN /\ kvSessions' = SessionsAfterGetUser(token)
       /\ IF status # 200 \/ endpoint = "GET /api/scripts/:id"
          THEN UNCHANGED <<kvScript, kvShares, nextVid, nextCid>>
          ELSE IF endpoint = "PUT /api/scripts/:id/content"
          THEN /\ kvScript' = PutContent(kvScript, RequestBody)
               /\ UNCHANGED <<kvShares, nextVid, nextCid>>
          ELSE IF endpoint = "POST /api/scripts/:id/versions"
          THEN /\ nextVid < VersionCap + MaxNewVersions
               /\ kvScript' = PushVersion(kvScript, NewVersion(kvScript, nextVid))
               /\ nextVid' = nextVid + 1
               /\ UNCHANGED <<kvShares, nextCid>>
          ELSE IF endpoint = "POST /api/scripts/:id/comments"
          THEN /\ nextCid <= MaxComments
               /\ kvScript' = PushComment(kvScript, [id |-> nextCid, elementId |-> 1,
                                                     resolved |-> FALSE])
               /\ nextCid' = nextCid + 1
               /\ UNCHANGED <<kvShares, nextVid>>
          ELSE /\ kvShares' = IF kvScript.shareToken # 0
                              THEN DeleteShare(kvShares, kvScript.shareToken) ELSE kvShares
               /\ kvScript' = [kvScript EXCEPT !.shareToken = 0, !.shareMode = "null"]
               /\ UNCHANGED <<nextVid, nextCid>>
       /\ lastOp' = [Op("ScriptRequest") EXCEPT
                        !.payload = [token |-> token, status |-> status, data |-> data]]
       /\ UNCHANGED <<variant, download, analysis, kvUsers, kvUsersByName, uiVars, comments,
                      handlers, edVars, sugVars, shVars, acVars, verVars, saveTimer, page,
                      nextElId, nextTok, netVars, svVars, focVars, now>>

(***************************************************************************)
(* Initial states and specifications.                                      *)
(***************************************************************************)
\* a freshly mounted Editor (first render) for the script s the server holds
InitOf(s, users, usersByName, sessions) ==
    /\ variant \in {1, 2}
    /\ script = NoScript /\ elements = <<>> /\ titlePage = EmptyTitlePage
    /\ activeId = 0 /\ activeType = "" /\ dirty = FALSE /\ saving = FALSE
    /\ characters = <<>> /\ locations = <<>> /\ shareToken = 0 /\ shareMode = "null"
    /\ showAutocomplete = FALSE /\ autocompleteItems = <<>> /\ autocompleteIndex = 0
    /\ focusMode = FALSE /\ modal = "null"
    /\ comments = <<>> /\ handlers = EmptyBag /\ nextCid = 1
    /\ versions = <<>> /\ saveTimer = NoTimer /\ page = "editor"
    /\ restorePc = "idle" /\ restoreVid = 0 /\ restoreSeen = NothingSeen /\ deleted = {}
    /\ nextElId = 2
    /\ kvScript = s /\ kvShares = SharesOf(s) /\ nextVid = VersionCap + 1
    /\ nextTok = s.shareToken + 1
    /\ reqs = EmptyBag /\ resps = EmptyBag
    /\ svLoaded = FALSE /\ svToken = 0 /\ svElements = <<>> /\ svMode = "read"
    /\ focused = 0 /\ focusTimers = <<>> /\ now = TimeCap
    /\ download = NoDownload /\ analysis = NullAnalysis
    /\ kvUsers = users /\ kvUsersByName = usersByName /\ kvSessions = sessions
    /\ lastOp = [op |-> "Init", pending |-> FALSE, sent |-> FALSE, payload |-> NoPayload,
                 race |-> "none", key |-> NoKey]

\* the same before any user is stored
InitWith(s) == InitOf(s, <<>>, <<>>, <<>>)

\* editing alone: a new script of any genre, opened and edited
InitEdit == \E t \in DocTypes : InitWith(NewScript(t))

NextEdit ==
    \/ LoadScript
    \/ \E i \in 1..MaxElems : FocusElement(i)
    \/ FocusTimeout
    \/ \E shiftKey \in BOOLEAN : KeyEnter(shiftKey, DesktopWidth, FALSE)
    \/ \E shiftKey \in BOOLEAN : KeyTab(shiftKey)
    \/ KeyBackspace
    \/ \E val \in InputVals : HandleInput(val)
    \/ \E i \in 1..Len(TYPES) : ToolbarTap(TYPES[i])
    \/ AddNewElement

SpecEdit == InitEdit /\ [][NextEdit]_vars

(***************************************************************************)
(* C1: once a script with at least one element is loaded, no step of       *)
(* editing (Backspace delete-merge, Enter and '+' inserts, Tab and toolbar *)
(* retypes, content input) leaves the element list empty, and Backspace in *)
(* the only element changes neither the elements nor the title page.       *)
(***************************************************************************)
C1_NeverEmpty ==
    [][/\ Len(elements) >= 1 => Len(elements') >= 1
       /\ (lastOp'.op = "KeyBackspace" /\ Len(elements) = 1)
              => (elements' = elements /\ titlePage' = titlePage)]_vars

\* Backspace was pressed in the only element, which is empty and still holds focus
C1_Witness ==
    /\ lastOp.op = "KeyBackspace" /\ Len(elements) = 1
    /\ elements[1].content = <<>> /\ focused = elements[1].id /\ nextElId > 2

(***************************************************************************)
(* Saving: a loaded script is edited, time passes, the timer fires, the    *)
(* user saves explicitly or leaves by the back button.                     *)
(***************************************************************************)
InitSave == \E t \in DocTypes : InitWith(NewScript(t))

NextSave ==
    \/ LoadScript
    \/ \E i \in 1..MaxElems : FocusElement(i)
    \/ \E val \in InputVals : HandleInput(val)
    \/ \E field \in TitleFields, value \in TitleVals : UpdateTitlePage(field, value)
    \/ Tick
    \/ TimerFire
    \/ KeySave
    \/ BackButton
    \/ ServerPutContent
    \/ SaveResponse
    \/ ResponseAfterLeave

SpecSave == InitSave /\ [][NextSave]_vars

\* the document as the editor holds it
CurrentDocument == [elements |-> elements, titlePage |-> titlePage]

(***************************************************************************)
(* C2: a save request issued by the debounce timer carries the document as *)
(* the editor holds it when the timer fires, the last mutation included.   *)
(***************************************************************************)
C2_TimerSavesCurrentDocument ==
    (lastOp.op = "TimerFire" /\ lastOp.sent) => lastOp.payload = CurrentDocument

(***************************************************************************)
(* C3: once the script is loaded, a save request issued by an explicit     *)
(* save (Ctrl/Cmd+S or the back button) carries the elements and the title *)
(* page the editor holds.                                                  *)
(***************************************************************************)
C3_SaveNowSendsCurrentDocument ==
    (lastOp.op \in {"KeySave", "BackButton"} /\ lastOp.sent /\ script # NoScript)
        => lastOp.payload = CurrentDocument

(***************************************************************************)
(* C4: trailing-edge debounce: when the timer armed by the last mutation   *)
(* of a burst fires, DebounceMs after that mutation, it issues one save    *)
(* request.                                                                *)
(***************************************************************************)
C4_TimerIssuesOneSave ==
    lastOp.op = "TimerFire" => (lastOp.sent /\ now = DebounceTicks /\ ~saveTimer.armed)

(***************************************************************************)
(* C5: an explicit save requested while the debounce timer is pending      *)
(* cancels the timer and issues the save request itself.                   *)
(***************************************************************************)
C5_SaveNowReplacesTimer ==
    (lastOp.op \in {"KeySave", "BackButton"} /\ lastOp.pending)
        => (lastOp.sent /\ ~saveTimer.armed)

(***************************************************************************)
(* Versions: a script that already has versions is opened, edited, and     *)
(* its versions are created, restored and deleted.                         *)
(***************************************************************************)
\* the content the stored versions were taken from, before the script became what it is
StoredDocument(type) ==
    [elements |-> <<[id |-> 1, type |-> getDefaultElement(type).type, content |-> <<"o">>]>>,
     titlePage |-> NewScript(type).content.titlePage]

\* a script with n versions, the newest created last
ScriptWithVersions(type, n) ==
    [NewScript(type) EXCEPT
        !.versions = [i \in 1..n |-> [id |-> VersionCap - n + i,
                                      content |-> StoredDocument(type)]]]

PrefilledVersions == {1, VersionCap}

\* the listed versions the user picks: the oldest and the newest
VersionPicks == IF versions = <<>> THEN {} ELSE {versions[1], versions[Len(versions)]}

InitVer == \E t \in DocTypes, n \in PrefilledVersions : InitWith(ScriptWithVersions(t, n))

NextVer ==
    \/ LoadScript
    \/ \E i \in 1..MaxElems : FocusElement(i)
    \/ \E val \in InputVals : HandleInput(val)
    \/ CreateVersion
    \/ ServerCreateVersion
    \/ CreateVersionResponse
    \/ \E vid \in VersionPicks : RestoreVersion(vid)
    \/ RestoreAfterCreate
    \/ ServerRestoreVersion
    \/ RestoreResponse
    \/ \E vid \in VersionPicks : DeleteVersion(vid)
    \/ ServerDeleteVersion

SpecVer == InitVer /\ [][NextVer]_vars

VersionIds(s) == {s.versions[i].id : i \in DOMAIN s.versions}

(***************************************************************************)
(* C6: when the restore of a listed version completes, the persisted       *)
(* content and the editor's elements and title page equal the content that *)
(* version stored, whichever listed version was chosen, the oldest of 20   *)
(* included.                                                               *)
(***************************************************************************)
C6_RestoreOverwritesLiveDocument ==
    (lastOp.op = "RestoreResponse" /\ restoreSeen.stored # NoDocument)
        => /\ kvScript.content = restoreSeen.stored
           /\ CurrentDocument = restoreSeen.stored

(***************************************************************************)
(* C7: the version a restore appends before it overwrites the live         *)
(* document stores the document as the editor held it when the restore was *)
(* asked for, unsaved edits included.                                      *)
(***************************************************************************)
C7_RestoreSnapshotsEditorDocument ==
    lastOp.op = "RestoreAfterCreate"
        => \A i \in DOMAIN kvScript.versions :
               kvScript.versions[i].id = versions[Len(versions)]
                   => kvScript.versions[i].content = restoreSeen.editor

(***************************************************************************)
(* C8: the persisted version list holds at most VersionCap versions in     *)
(* creation order, a creation at VersionCap evicts exactly the oldest, and *)
(* once no request or response is in transit every version the editor      *)
(* lists is in the persisted list.                                         *)
(***************************************************************************)
C8_VersionListCapped ==
    /\ [](/\ Len(kvScript.versions) <= VersionCap
          /\ \A i, j \in DOMAIN kvScript.versions :
                 i < j => kvScript.versions[i].id < kvScript.versions[j].id
          /\ InTransit = 0 => Range(versions) \subseteq VersionIds(kvScript))
    /\ [][(lastOp'.op = "ServerCreateVersion" /\ Len(kvScript.versions) = VersionCap)
             => /\ Len(kvScript'.versions) = VersionCap
                /\ SubSeq(kvScript'.versions, 1, VersionCap - 1) = Tail(kvScript.versions)]_vars

(***************************************************************************)
(* Sharing: the owner turns sharing on and off, link holders open the      *)
(* shared view, type in it, or send their own requests.                    *)
(***************************************************************************)
InitShare == \E t \in DocTypes : InitWith(NewScript(t))

NextShare ==
    \/ LoadScript
    \/ \E mode \in ShareModes : EnableSharing(mode)
    \/ ServerShare
    \/ ShareResponse
    \/ DisableSharing
    \/ ServerUnshare
    \/ UnshareResponse
    \/ \E token \in 1..MaxTokens : LoadShared(token)
    \/ \E i \in 1..MaxElems, val \in InputVals : SharedHandleInput(i, val)
    \/ \E token \in 1..MaxTokens, val \in InputVals : DirectSharedPut(token, val)
    \/ ServerSharedPut

SpecShare == InitShare /\ [][NextShare]_vars

(***************************************************************************)
(* C10: while the script's share mode is read, an input on the shared view *)
(* changes neither the persisted document nor the view's elements, and a   *)
(* PUT that carries a share token does not change the persisted document.  *)
(***************************************************************************)
C10_ReadModePermitsNoEdit ==
    [][(lastOp'.op \in {"SharedHandleInput", "ServerSharedPut"} /\ kvScript.shareMode = "read")
          => (kvScript'.content = kvScript.content /\ svElements' = svElements)]_vars

(***************************************************************************)
(* The life of the stored versions: a script shared for editing that has   *)
(* versions is edited and saved by its owner, edited through the shared    *)
(* view, and its versions are created, restored and deleted.               *)
(***************************************************************************)
SharedForEdit(s) == [s EXCEPT !.shareToken = 1, !.shareMode = "edit"]

\* the handlers of this specification do not read the script's type; the list is full, so
\* that a creation evicts, and a creation after a deletion does not
InitLife == InitWith(SharedForEdit(ScriptWithVersions("feature", VersionCap)))

NextLife ==
    \/ LoadScript
    \/ KeySave
    \/ BackButton
    \/ ServerPutContent
    \/ SaveResponse
    \/ ResponseAfterLeave
    \/ CreateVersion
    \/ ServerCreateVersion
    \/ CreateVersionResponse
    \/ \E vid \in VersionPicks : RestoreVersion(vid)
    \/ RestoreAfterCreate
    \/ ServerRestoreVersion
    \/ RestoreResponse
    \/ \E vid \in VersionPicks : DeleteVersion(vid)
    \/ ServerDeleteVersion
    \/ \E token \in 1..MaxTokens : LoadShared(token)
    \/ \E i \in 1..MaxElems, val \in InputVals : SharedHandleInput(i, val)
    \/ ServerSharedPut

SpecLife == InitLife /\ [][NextLife]_vars

InitCollab == \E t \in DocTypes : InitWith(SharedForEdit(NewScript(t)))

NextCollab ==
    \/ LoadScript
    \/ \E i \in 1..MaxElems : FocusElement(i)
    \/ FocusTimeout
    \/ \E shiftKey \in BOOLEAN : KeyEnter(shiftKey, DesktopWidth, FALSE)
    \/ \E val \in InputVals : HandleInput(val)
    \/ BackButton
    \/ ServerPutContent
    \/ ResponseAfterLeave
    \/ \E token \in 1..MaxTokens : LoadShared(token)
    \/ \E i \in 1..MaxElems, val \in InputVals : SharedHandleInput(i, val)
    \/ ServerSharedPut

SpecCollab == InitCollab /\ [][NextCollab]_vars

\* the number, order, ids and types of a list of elements
Structure(els) == [i \in DOMAIN els |-> [id |-> els[i].id, type |-> els[i].type]]
PersistedElements == IF HasElements(kvScript.content) THEN kvScript.content.elements ELSE <<>>

(***************************************************************************)
(* C11: a shared edit (the input on the shared view and the PUT it sends)  *)
(* is no structural operation: the number, order, ids and types of the     *)
(* elements of the shared view and of the persisted document are after it  *)
(* what they were before it.                                               *)
(***************************************************************************)
C11_SharedEditKeepsStructure ==
    [][lastOp'.op \in {"SharedHandleInput", "ServerSharedPut"}
          => /\ Structure(svElements') = Structure(svElements)
             /\ Structure(PersistedElements') = Structure(PersistedElements)]_vars

(***************************************************************************)
(* Failing saves: a loaded script is edited and saved while save requests  *)
(* may fail.                                                               *)
(***************************************************************************)
InitFail == \E t \in DocTypes : InitWith(NewScript(t))

NextFail ==
    \/ LoadScript
    \/ \E i \in 1..MaxElems : FocusElement(i)
    \/ \E val \in InputVals : HandleInput(val)
    \/ Tick
    \/ TimerFire
    \/ KeySave
    \/ BackButton
    \/ ServerPutContent
    \/ SaveResponse
    \/ ResponseAfterLeave
    \/ \E error \in SaveErrors : RejectSave(error)
    \/ SaveErrorResponse
    \/ SaveRejected

SpecFail == InitFail /\ [][NextFail]_vars

(***************************************************************************)
(* C12: when a save that failed completes while the persisted document is  *)
(* not the document of the loaded editor, the status stays unsaved or      *)
(* saving: it is not Saved (dirty = false and saving = false).             *)
(***************************************************************************)
C12_FailedSaveStaysUnsaved ==
    (lastOp.op = "SaveErrorResponse" /\ script # NoScript /\ kvScript.content # CurrentDocument)
        => (dirty \/ saving)

(***************************************************************************)
(* Concurrent saves: Ctrl+S while the debounced save is in flight.  The    *)
(* two requests are processed, and their responses received, in either     *)
(* order.                                                                  *)
(***************************************************************************)
InitRace == \E t \in DocTypes : InitWith(NewScript(t))

NextRace ==
    \/ LoadScript
    \/ \E i \in 1..MaxElems : FocusElement(i)
    \/ \E val \in InputVals : HandleInput(val)
    \/ Tick
    \/ TimerFire
    \/ KeySaveWithin(MaxRacingSaves)
    \/ ServerPutContent
    \/ SaveResponse

SpecRace == InitRace /\ [][NextRace]_vars

(***************************************************************************)
(* C13: once the debounced save and the Ctrl+S save issued during it have  *)
(* both completed, in whichever order, and nothing was edited since, the   *)
(* persisted document is the editor's document and the editor's character  *)
(* and location lists are the ones derived from it.                        *)
(***************************************************************************)
C13_ConcurrentSavesSettle ==
    (lastOp.race = "both" /\ InTransit = 0)
        => /\ kvScript.content = CurrentDocument
           /\ characters = extractCharacters(CurrentDocument)
           /\ locations = extractLocations(CurrentDocument)

(***************************************************************************)
(* Enter and Tab, pressed in windows of either width, with and without     *)
(* touch support, on documents of up to MaxKeyedElems elements.            *)
(***************************************************************************)
InitKeys == \E t \in DocTypes : InitWith(NewScript(t))

NextKeys ==
    \/ LoadScript
    \/ \E i \in 1..MaxKeyedElems : FocusElement(i)
    \/ FocusTimeout
    \/ \E shiftKey \in BOOLEAN, innerWidth \in WindowWidths, touch \in BOOLEAN :
          KeyEnterWithin(MaxKeyedElems, shiftKey, innerWidth, touch)
    \/ \E shiftKey \in BOOLEAN : KeyTab(shiftKey)

SpecKeys == InitKeys /\ [][NextKeys]_vars

\* the place (from 1) of the element that holds the keyboard focus
KeyedIndex == FindIndex(elements, focused) + 1

(***************************************************************************)
(* C14: with autocomplete closed, Enter creates an element exactly when    *)
(* (isMobile() ? shiftKey : !shiftKey).  Then one element with a new id,   *)
(* empty content and the successor type of the keyed element is inserted   *)
(* right after the keyed element and becomes the active element, and the   *)
(* elements before and after it are the old ones in their order.           *)
(* Otherwise the elements and the active element are unchanged.            *)
(***************************************************************************)
C14_EnterInsertsSuccessor ==
    [][(lastOp'.op = "KeyEnter" /\ ~showAutocomplete) =>
          LET k == lastOp'.key
              i == KeyedIndex
          IN IF (IF isMobile(k.innerWidth, k.touch) THEN k.shiftKey ELSE ~k.shiftKey)
             THEN /\ Len(elements') = Len(elements) + 1
                  /\ elements'[i + 1].id \notin Ids(elements)
                  /\ elements'[i + 1].content = <<>>
                  /\ elements'[i + 1].type =
                         (IF elements[i].type \in DOMAIN NEXT_TYPE
                          THEN NEXT_TYPE[elements[i].type] ELSE TYPES[1])
                  /\ activeId' = elements'[i + 1].id
                  /\ \A j \in 1..i : elements'[j] = elements[j]
                  /\ \A j \in (i + 1)..Len(elements) : elements'[j + 1] = elements[j]
             ELSE elements' = elements /\ activeId' = activeId]_vars

\* plain Enter in a wide window without touch, in the first of two elements: the new
\* element stands between them and is active
C14_Witness ==
    /\ lastOp.op = "KeyEnter" /\ ~lastOp.key.shiftKey
    /\ ~isMobile(lastOp.key.innerWidth, lastOp.key.touch)
    /\ Len(elements) = 3 /\ focused = elements[1].id /\ activeId = elements[2].id
    /\ elements[2].content = <<>>

(***************************************************************************)
(* Backspace: elements are inserted by plain Enter, typed into and removed *)
(* again, on documents of up to MaxKeyedElems elements.                    *)
(***************************************************************************)
InitRemove == \E t \in DocTypes : InitWith(NewScript(t))

NextRemove ==
    \/ LoadScript
    \/ \E i \in 1..MaxKeyedElems : FocusElement(i)
    \/ FocusTimeout
    \/ KeyEnterWithin(MaxKeyedElems, FALSE, DesktopWidth, FALSE)
    \/ KeyBackspace
    \/ \E val \in InputVals : HandleInput(val)

SpecRemove == InitRemove /\ [][NextRemove]_vars

(***************************************************************************)
(* C15: Backspace in an element with empty content, in a document of more  *)
(* than one element, removes that element and no other, the others keep    *)
(* their order, and the active element becomes the one that preceded it    *)
(* (the new first element when the first was removed).  With content, or   *)
(* in the only element, the elements and the active element are unchanged. *)
(***************************************************************************)
C15_BackspaceRemovesKeyed ==
    [][lastOp'.op = "KeyBackspace" =>
          LET i == KeyedIndex
          IN IF elements[i].content = <<>> /\ Len(elements) > 1
             THEN /\ elements' = [j \in 1..(Len(elements) - 1) |->
                                     IF j < i THEN elements[j] ELSE elements[j + 1]]
                  /\ activeId' = IF i = 1 THEN elements'[1].id ELSE elements[i - 1].id
             ELSE elements' = elements /\ activeId' = activeId]_vars

\* the middle one of three elements was removed: the first one is active
C15_Witness ==
    /\ lastOp.op = "KeyBackspace" /\ focused = 0
    /\ Len(elements) = 2 /\ activeId = elements[1].id
    /\ elements[1].id < nextElId - 1 /\ elements[2].id > elements[1].id + 1

(***************************************************************************)
(* C16: with autocomplete closed, Tab and Shift+Tab change the type of the *)
(* keyed element and nothing else of the document: its id and content,     *)
(* every other element, the order and the active element id are unchanged, *)
(* and the recorded active type is the element's new type.                 *)
(***************************************************************************)
C16_TabChangesTypeOnly ==
    [][(lastOp'.op = "KeyTab" /\ ~showAutocomplete) =>
          LET i == KeyedIndex
          IN /\ Len(elements') = Len(elements)
             /\ \A j \in DOMAIN elements : j # i => elements'[j] = elements[j]
             /\ elements'[i].id = elements[i].id
             /\ elements'[i].content = elements[i].content
             /\ activeId' = activeId
             /\ activeType' = elements'[i].type]_vars

\* Tab was pressed in the first of two elements, which has content and a type other
\* than the one it was created with
C16_Witness ==
    /\ lastOp.op = "KeyTab" /\ ~showAutocomplete
    /\ Len(elements) = 2 /\ focused = elements[1].id
    /\ elements[1].content # <<>>
    /\ elements[1].type # getDefaultElement(script.type).type
    /\ activeType = elements[1].type

\* Tab (Shift+Tab) pressed k times on an element of type t
RECURSIVE CycleTimes(_, _, _)
CycleTimes(t, shiftKey, k) ==
    IF k = 0 THEN t ELSE CycleTimes(CycleType(t, shiftKey), shiftKey, k - 1)

(***************************************************************************)
(* C17: for the genre of the loaded script, each of its elements and each  *)
(* direction, cycling the element's type as many times as the genre has    *)
(* types gives the element's type again.                                   *)
(***************************************************************************)
C17_CycleWraps ==
    script # NoScript =>
        \A i \in DOMAIN elements, shiftKey \in BOOLEAN :
            CycleTimes(elements[i].type, shiftKey, Len(TYPES)) = elements[i].type

\* Tab has brought the first element to the last type of the list, from where Tab
\* wraps to the first, and a second element has another type
C17_Witness ==
    /\ lastOp.op = "KeyTab" /\ Len(elements) = 2
    /\ focused = elements[1].id
    /\ elements[1].type = TYPES[Len(TYPES)]
    /\ elements[2].type # elements[1].type
    /\ CycleType(elements[1].type, FALSE) = TYPES[1]

(***************************************************************************)
(* Suggestions: a screenplay whose saved elements name two characters is   *)
(* opened, and its first element is typed into and keyed, with the         *)
(* suggestions open and closed.                                            *)
(***************************************************************************)
\* the stored screenplay: two character elements are what is left of it
CastScript ==
    [NewScript("feature") EXCEPT
        !.content.elements =
            <<[id |-> 2 + MaxNewIds, type |-> "character", content |-> <<"A","B">>],
              [id |-> 3 + MaxNewIds, type |-> "character", content |-> <<"A","B","C">>]>>]

\* the texts typed: none, a prefix of both names, one of the names in other case, no prefix
CastInputVals == {<<>>, <<"a">>, <<"A","b">>, <<"x">>}

InitSuggest == InitWith(CastScript)

NextSuggest ==
    \/ LoadScript
    \/ FocusElement(1)
    \/ \E val \in CastInputVals : HandleInput(val)
    \/ \E down \in BOOLEAN : KeyArrow(down)
    \/ \E shiftKey \in BOOLEAN : KeyEnterWithin(MaxElems, shiftKey, DesktopWidth, FALSE)
    \/ \E shiftKey \in BOOLEAN : KeyTab(shiftKey)
    \/ KeyEscape
    \/ ToggleFocusMode
    \/ KeySearch

SpecSuggest == InitSuggest /\ [][NextSuggest]_vars

\* every variable but the highlight index, and but the suggestions' visibility
AllButIndex ==
    <<variant, auxVars, uiVars, cmtVars, edVars, sugVars, shVars, showAutocomplete, autocompleteItems, verVars,
      saveTimer, page, nextElId, srvVars, netVars, svVars, focVars>>
AllButShow ==
    <<variant, auxVars, uiVars, cmtVars, edVars, sugVars, shVars, autocompleteItems, autocompleteIndex, verVars,
      saveTimer, page, nextElId, srvVars, netVars, svVars, focVars>>

\* a step of ArrowDown or ArrowUp moves only the highlight, within the suggestions
ArrowStep ==
    lastOp'.op = "KeyArrow" =>
        (/\ autocompleteIndex' \in 0..(Len(autocompleteItems) - 1)
         /\ AllButIndex' = AllButIndex)

\* a step of Tab or Enter puts the highlighted suggestion into the active element and
\* closes the suggestions; the number, order, ids and types of the elements stay
AcceptStep ==
    lastOp'.op \in {"KeyTab", "KeyEnter"} =>
        (/\ elements' = [j \in DOMAIN elements |->
                            IF elements[j].id = activeId
                            THEN [elements[j] EXCEPT
                                     !.content = autocompleteItems[autocompleteIndex + 1]]
                            ELSE elements[j]]
         /\ ~showAutocomplete')

\* a step of Escape closes the suggestions and changes nothing else
EscapeStep ==
    lastOp'.op = "KeyEscape" => (~showAutocomplete' /\ AllButShow' = AllButShow)

\* the rules of the arrows and of Tab and Enter, while the suggestions are open
ArrowsAndAcceptRule == [][showAutocomplete => (ArrowStep /\ AcceptStep)]_vars

(***************************************************************************)
(* C18: while the suggestions are open, ArrowDown and ArrowUp change only  *)
(* the highlight index, which stays within the suggestions; Tab and Enter  *)
(* put the highlighted suggestion into the active element and close the    *)
(* suggestions, inserting no element and changing no type; Escape closes   *)
(* the suggestions and changes nothing else.                               *)
(***************************************************************************)
C18_AutocompleteKeys ==
    [][showAutocomplete => (ArrowStep /\ AcceptStep /\ EscapeStep)]_vars

(***************************************************************************)
(* C19: an edit that leaves a character element with a non-empty text t    *)
(* makes the suggestions exactly the known character names that start with *)
(* t and are not t, both without regard to case, and opens autocomplete    *)
(* iff there is one; an edit of an element that is neither a character     *)
(* element with text nor a scene heading with more than 4 characters       *)
(* closes autocomplete.                                                    *)
(***************************************************************************)
C19_CharacterSuggestions ==
    [][lastOp'.op = "HandleInput" =>
          LET el == elements[KeyedIndex]
              t == elements'[KeyedIndex].content
              names == {c \in Range(characters) :
                           /\ Len(c) >= Len(t)
                           /\ ToLowerCase(SubSeq(c, 1, Len(t))) = ToLowerCase(t)
                           /\ ToLowerCase(c) # ToLowerCase(t)}
          IN /\ (el.type = "character" /\ t # <<>>) =>
                    /\ Range(autocompleteItems') = names
                    /\ showAutocomplete' = (names # {})
             /\ (~(el.type = "character" /\ t # <<>>)
                    /\ ~(el.type = "scene-heading" /\ Len(t) > 4)) => ~showAutocomplete']_vars

\* 'Ab' was typed into a character element: ABC is suggested, AB is not
C19_Witness ==
    /\ lastOp.op = "HandleInput" /\ showAutocomplete
    /\ characters = << <<"A","B">>, <<"A","B","C">> >>
    /\ elements[1].type = "character" /\ elements[1].content = <<"A","b">>
    /\ focused = elements[1].id
    /\ autocompleteItems = << <<"A","B","C">> >>

(***************************************************************************)
(* Comments with editing, saving and restoring: an element of a           *)
(* screenplay with one version is removed, the timer saves, a comment is   *)
(* added, and the version is restored.                                     *)
(***************************************************************************)
\* the stored screenplay: its scene heading, an empty action element, one version
DraftScript ==
    [ScriptWithVersions("feature", 1) EXCEPT
        !.content.elements =
            @ \o <<[id |-> 2 + MaxNewIds, type |-> "action", content |-> <<>>]>>]

\* the first copy of the editor: the timer of the second sends no request
InitComments == InitWith(DraftScript) /\ variant = 1

NextComments ==
    \/ LoadScript
    \/ \E i \in 1..MaxElems : FocusElement(i)
    \/ FocusTimeout
    \/ KeyBackspace
    \/ Tick
    \/ TimerFire
    \/ ServerPutContentGet
    \/ ServerPutContentSet
    \/ SaveResponse
    \/ AddComment
    \/ ServerAddComment
    \/ CommentResponse
    \/ \E vid \in VersionPicks : RestoreVersion(vid)
    \/ ServerCreateVersion
    \/ RestoreAfterCreate
    \/ ServerRestoreVersion
    \/ RestoreResponse

SpecComments == InitComments /\ [][NextComments]_vars

\* the steps of a Backspace, of a content save and of a version restore
ContentSteps ==
    {"KeyBackspace", "TimerFire", "ServerPutContentGet", "ServerPutContentSet", "SaveResponse",
     "RestoreVersion", "ServerCreateVersion", "RestoreAfterCreate",
     "ServerRestoreVersion", "RestoreResponse"}

\* every such step but the save's kv.set keeps the comments
CommentsKeptBeforeSet ==
    [][lastOp'.op \in ContentSteps \ {"ServerPutContentSet"} =>
          /\ comments' = comments
          /\ kvScript'.comments = kvScript.comments]_vars

(***************************************************************************)
(* C20: no step of a Backspace, of a content save or of a version restore  *)
(* removes or changes a comment, in the editor's list or in the persisted  *)
(* script; a comment of a removed element stays as it is.                  *)
(***************************************************************************)
C20_CommentsOutliveContent ==
    [][lastOp'.op \in ContentSteps =>
          /\ comments' = comments
          /\ kvScript'.comments = kvScript.comments]_vars

(***************************************************************************)
(* An active id without an element: a screenplay with a character element *)
(* and one version is opened, the character element is focused and typed   *)
(* into, and the version, which does not hold that element, is restored.   *)
(* Then the toolbar, the '+' button and a suggestion are tapped.           *)
(***************************************************************************)
\* the stored screenplay: its scene heading, a character element, one version
RevisedScript ==
    [ScriptWithVersions("feature", 1) EXCEPT
        !.content.elements =
            @ \o <<[id |-> 2 + MaxNewIds, type |-> "character", content |-> <<"A","B">>]>>]

InitStray == InitWith(RevisedScript)

NextStray ==
    \/ LoadScript
    \/ \E i \in 1..MaxElems : FocusElement(i)
    \/ HandleInput(<<"a">>)
    \/ \E vid \in VersionPicks : RestoreVersion(vid)
    \/ ServerCreateVersion
    \/ RestoreAfterCreate
    \/ ServerRestoreVersion
    \/ RestoreResponse
    \/ ToolbarTap("dialogue")
    \/ AddNewElement
    \/ AutocompleteClick(1)

SpecStray == InitStray /\ [][NextStray]_vars

(***************************************************************************)
(* C21: a toolbar retype, a '+' insert or an accepted suggestion, done     *)
(* while the active id is the id of no element, leaves the elements, the   *)
(* active id and type, the dirty flag and the pending save timer as they   *)
(* are.                                                                    *)
(***************************************************************************)
C21_StrayIdIsNoOp ==
    [][(lastOp'.op \in {"ToolbarTap", "AddNewElement", "AutocompleteClick"}
           /\ activeId \notin Ids(elements))
          => UNCHANGED <<elements, activeId, activeType, dirty, saveTimer>>]_vars

(***************************************************************************)
(* Genres: a new document of any document type is opened and its elements  *)
(* are inserted, retyped, typed into and removed.                          *)
(***************************************************************************)
\* b.type of POST /api/scripts: the types of the three genres, one in capitals, and one
\* that is no genre's
AllDocTypes == {"feature", "tv", "poetry", "Poem", "novel", "short-story"}

InitGenre == \E t \in AllDocTypes : InitWith(NewScript(t))

NextGenre ==
    \/ LoadScript
    \/ \E i \in 1..MaxElems : FocusElement(i)
    \/ FocusTimeout
    \/ KeyEnter(FALSE, DesktopWidth, FALSE)
    \/ \E shiftKey \in BOOLEAN : KeyTab(shiftKey)
    \/ KeyBackspace
    \/ HandleInput(<<>>)
    \/ \E i \in 1..Len(TYPES) : ToolbarTap(TYPES[i])
    \/ AddNewElement

SpecGenre == InitGenre /\ [][NextGenre]_vars

NextLeave ==
    \/ LoadScript
    \/ \E i \in 1..MaxElems : FocusElement(i)
    \/ \E val \in InputVals : HandleInput(val)
    \/ \E field \in TitleFields, value \in TitleVals : UpdateTitlePage(field, value)
    \/ Tick
    \/ TimerFire
    \/ BackButton
    \/ Unmount
    \/ ServerPutContent
    \/ SaveResponse
    \/ ResponseAfterLeave

SpecLeave == InitSave /\ [][NextLeave]_vars

\* the editor is left in this step
Leaves == page = "editor" /\ page' = "left"

(***************************************************************************)
(* C23: when the editor is left, by the back button or by unmounting,      *)
(* while a debounced save is pending (a mutation was not sent yet), the    *)
(* step that discards the timer issues a save request carrying the         *)
(* document the editor holds.                                              *)
(***************************************************************************)
C23_LeavingSaves ==
    [][(Leaves /\ saveTimer.armed)
          => (lastOp'.sent /\ lastOp'.payload = CurrentDocument)]_vars

\* the part that holds: the back button, pressed with a save pending, sends the
\* document the editor holds
BackButtonSavesRule ==
    [][(Leaves /\ saveTimer.armed /\ lastOp'.op = "BackButton")
          => (lastOp'.sent /\ lastOp'.payload = CurrentDocument)]_vars

(***************************************************************************)
(* Export: stored documents of one or two elements are opened, in the      *)
(* editor and through their share link, and exported in every format.      *)
(***************************************************************************)
MaxExported == 2
ExportContents == {<<>>, <<"a">>, <<"A", "b">>}
ExportTypes(type) ==
    IF getCategory(type) = "poetry" THEN {"poem-title", "line"}
    ELSE {"scene-heading", "character", "dialogue", "parenthetical", "action"}

ExportedElements(type) ==
    UNION {[1..n -> [type : ExportTypes(type), content : ExportContents]] : n \in 1..MaxExported}

\* the stored script whose elements are els, numbered in order
ScriptHolding(type, els) ==
    [SharedForEdit(NewScript(type)) EXCEPT
        !.content.elements = [i \in DOMAIN els |->
                                 [id |-> i, type |-> els[i].type, content |-> els[i].content]]]

InitExport ==
    \E type \in {"feature", "poetry"} :
        \E els \in ExportedElements(type) : InitWith(ScriptHolding(type, els))

NextExport ==
    \/ LoadScript
    \/ \E format \in ExportFormats : Export(format)
    \/ LoadShared(1)
    \/ SharedExport

SpecExport == InitExport /\ [][NextExport]_vars

\* the export that ran last: its format and the document it was given
Exported == lastOp.op \in {"Export", "SharedExport"}
ExportedFormat ==
    IF lastOp.op = "SharedExport" THEN "shared-text"
    ELSE IF download.filename = ScriptTitle \o Extension("fountain") THEN "fountain"
    ELSE IF download.filename = ScriptTitle \o Extension("markdown") THEN "markdown"
    ELSE "text"
ExportedEls == IF lastOp.op = "SharedExport" THEN svElements ELSE elements
ExportedTitlePage == IF lastOp.op = "SharedExport" THEN EmptyTitlePage ELSE titlePage

\* the types with a rule of their own in a format
RuledTypes(format) ==
    CASE format = "fountain" ->
            {"scene-heading", "action", "character", "dialogue", "parenthetical", "transition"}
      [] format = "markdown" ->
            {"scene-heading", "character", "dialogue", "chapter-heading", "poem-title"}
      [] OTHER -> {"scene-heading", "character", "dialogue"}

\* the types whose rule upper-cases the content
UpperCasedTypes(format) ==
    CASE format = "fountain" -> {"scene-heading", "character", "transition"}
      [] format = "markdown" -> {"character"}
      [] OTHER -> {"scene-heading", "character"}

\* the length of the output once the first i elements are emitted
LengthAfter(i) == Len(Render(SubSeq(ExportedEls, 1, i), ExportedTitlePage, ExportedFormat))
\* the part of the downloaded text that element i added
Piece(i) == SubSeq(download.text, LengthAfter(i - 1) + 1, LengthAfter(i))

\* one segment per element, in order, after the header; raw content and a blank line
\* for a type without a rule
SegmentsInOrder ==
    /\ Len(download.text) = LengthAfter(Len(ExportedEls))
    /\ \A i \in DOMAIN ExportedEls :
        /\ LengthAfter(i - 1) < LengthAfter(i)
        /\ SubSeq(download.text, 1, LengthAfter(i))
              = Render(SubSeq(ExportedEls, 1, i), ExportedTitlePage, ExportedFormat)
        /\ ExportedEls[i].type \notin RuledTypes(ExportedFormat)
              => Piece(i) = ExportedEls[i].content \o <<NL, NL>>

MaxAnalysed == 4
AnalysedElements ==
    [type : {"character"}, content : {<<>>, <<"a">>, <<"A">>, <<" ", "b">>}]
    \cup [type : {"dialogue"}, content : {<<>>, <<"a">>, <<"a", " ", "b">>}]
    \cup [type : {"action"}, content : {<<"a">>, <<"a", " ", " ", "b", " ">>}]
    \cup [type : {"scene-heading"}, content : {<<"a">>}]

AnalysedDocuments == UNION {[1..n -> AnalysedElements] : n \in 0..MaxAnalysed}

InitAnalyse ==
    \E els \in AnalysedDocuments : InitWith(ScriptHolding("feature", els)) /\ variant = 1

NextAnalyse == LoadScript

SpecAnalyse == InitAnalyse /\ [][NextAnalyse]_vars

\* the sum of the word counts of the elements of a set of positions
RECURSIVE WordsAt(_, _)
WordsAt(els, I) ==
    IF I = {} THEN 0
    ELSE LET i == CHOOSE k \in I : TRUE
         IN countWords(els[i].content) + WordsAt(els, I \ {i})

OfType(els, type) == {i \in DOMAIN els : els[i].type = type}

\* the content of the most recent character element before position i ('' if none)
CueBefore(els, i) ==
    IF \E j \in 1..(i - 1) : els[j].type = "character"
    THEN els[CHOOSE j \in 1..(i - 1) :
                 /\ els[j].type = "character"
                 /\ \A k \in (j + 1)..(i - 1) : els[k].type # "character"].content
    ELSE <<>>

\* the name analyzeScript keeps for a cue: upper-cased and trimmed
SpeakerBefore(els, i) == Trim(ToUpperCase(CueBefore(els, i)))

Analysed == script # NoScript /\ lastOp.op = "LoadScript"

Totals ==
    /\ analysis.dialogueWords = WordsAt(elements, OfType(elements, "dialogue"))
    /\ analysis.actionWords = WordsAt(elements, OfType(elements, "action"))
    /\ analysis.sceneCount = Cardinality(OfType(elements, "scene-heading"))

(***************************************************************************)
(* C25: analysis attributes dialogue in document order: each dialogue      *)
(* element's word count is added to the entry of the current speaker, the  *)
(* upper-cased and trimmed content of the most recent character element    *)
(* before it, and goes to no entry while that name is empty; dialogueWords *)
(* and actionWords are the word sums over the dialogue and the action      *)
(* elements, sceneCount the number of scene headings.                      *)
(***************************************************************************)
C25_DialogueBySpeaker ==
    Analysed =>
        LET named == {i \in OfType(elements, "dialogue") : SpeakerBefore(elements, i) # <<>>}
        IN /\ Totals
           /\ DOMAIN analysis.characterDialogue = {SpeakerBefore(elements, i) : i \in named}
           /\ \A k \in DOMAIN analysis.characterDialogue :
                analysis.characterDialogue[k]
                    = WordsAt(elements, {i \in named : SpeakerBefore(elements, i) = k})

\* C25 as the specification states it: the entry is that of the content of the most
\* recent character element, for every dialogue element that follows one
C25_DialogueByCueContent ==
    Analysed =>
        LET spoken == {i \in OfType(elements, "dialogue") :
                          \E j \in 1..(i - 1) : elements[j].type = "character"}
        IN /\ Totals
           /\ DOMAIN analysis.characterDialogue = {CueBefore(elements, i) : i \in spoken}
           /\ \A k \in DOMAIN analysis.characterDialogue :
                analysis.characterDialogue[k]
                    = WordsAt(elements, {i \in spoken : CueBefore(elements, i) = k})

\* two cues that differ in case share one entry, and the dialogue before the first cue
\* is in no entry
C25_Witness ==
    /\ Analysed /\ Len(elements) = 4
    /\ elements[1].type = "dialogue" /\ elements[1].content = <<"a">>
    /\ elements[2].type = "character" /\ elements[2].content = <<"a">>
    /\ elements[3].type = "dialogue" /\ elements[3].content = <<"a", " ", "b">>
    /\ elements[4].type = "action"
    /\ analysis.characterDialogue = (<<"A">> :> 2)
    /\ analysis.dialogueWords = 3

(***************************************************************************)
(* Outline: stored documents of the three genres are opened, their outline *)
(* is shown and its rows are clicked.                                      *)
(***************************************************************************)
MaxOutlined == 4
OutlinedTypes(type) ==
    IF getCategory(type) = "poetry" THEN {"poem-title", "line", "scene-heading"}
    ELSE IF getCategory(type) = "fiction" THEN {"chapter-heading", "paragraph", "scene-heading"}
    ELSE {"scene-heading", "action", "dialogue"}

OutlinedDocuments(type) ==
    UNION {[1..n -> [type : OutlinedTypes(type), content : {<<>>, <<"a">>}]] : n \in 0..MaxOutlined}

InitOutline ==
    \E type \in DocTypes : \E els \in OutlinedDocuments(type) : InitWith(ScriptHolding(type, els))

NextOutline ==
    \/ LoadScript
    \/ OpenModal("outline")
    \/ \E r \in 1..MaxOutlined : r \in DOMAIN OutlineRows /\ JumpToElement(OutlineRows[r].key)

SpecOutline == InitOutline /\ [][NextOutline]_vars

\* the positions of the elements of the genre's heading type
HeadingPositions ==
    {i \in DOMAIN elements :
        elements[i].type = (CASE getCategory(script.type) = "screenplay" -> "scene-heading"
                              [] getCategory(script.type) = "fiction" -> "chapter-heading"
                              [] getCategory(script.type) = "poetry" -> "poem-title")}
\* the r-th of them in document order
HeadingAt(r) == CHOOSE i \in HeadingPositions : Cardinality({j \in HeadingPositions : j < i}) = r - 1

(***************************************************************************)
(* C26: the outline shown for a document is exactly the elements of the    *)
(* genre's heading type (scene-heading, chapter-heading or poem-title), in *)
(* document order, numbered 1..k.                                          *)
(***************************************************************************)
C26_OutlineIsHeadingsInOrder ==
    (script # NoScript /\ modal = "outline") =>
        /\ Len(OutlineRows) = Cardinality(HeadingPositions)
        /\ \A r \in DOMAIN OutlineRows :
            /\ OutlineRows[r].number = r
            /\ OutlineRows[r].key = elements[HeadingAt(r)].id
            /\ getOutlineItems[r].el = elements[HeadingAt(r)]

\* the outline of [scene-heading, action, scene-heading, dialogue] is open: the two
\* scene headings, numbered 1 and 2
C26_Witness ==
    /\ script # NoScript /\ modal = "outline" /\ Len(elements) = 4
    /\ [i \in 1..4 |-> elements[i].type] = <<"scene-heading", "action", "scene-heading", "dialogue">>
    /\ [r \in DOMAIN OutlineRows |-> <<OutlineRows[r].number, OutlineRows[r].key>>]
          = <<<<1, elements[1].id>>, <<2, elements[3].id>>>>

(***************************************************************************)
(* Word counts: stored documents with blank, padded and spaced contents    *)
(* are opened and typed into, by appending to the focused element or by    *)
(* replacing its content.                                                  *)
(***************************************************************************)
MaxTyped == 5
CountedContents == {<<>>, <<" ">>, <<" ", "a", " ">>, <<"a", " ", " ", "b">>}
Appended == {<<"b">>}
Replaced == {<<"b", " ">>}

CountedDocuments ==
    UNION {[1..n -> [type : {"action"}, content : CountedContents]] : n \in 1..MaxElems}

InitCount == \E els \in CountedDocuments : InitWith(ScriptHolding("feature", els))

\* the input event after the user typed x at the end of the focused element
TypeAtEnd(x) ==
    /\ focused \in Ids(elements)
    /\ Len(ElementById(elements, focused).content) + Len(x) <= MaxTyped
    /\ HandleInput(ElementById(elements, focused).content \o x)

NextCount ==
    \/ LoadScript
    \/ \E i \in 1..MaxElems : FocusElement(i)
    \/ \E x \in Appended : TypeAtEnd(x)
    \/ \E val \in Replaced : HandleInput(val)

SpecCount == InitCount /\ [][NextCount]_vars

\* the tokens of a text: its maximal runs of characters that are not white space,
\* counted by their first characters
Tokens(t) == Cardinality({i \in DOMAIN t : ~IsSpace(t[i]) /\ (i = 1 \/ IsSpace(t[i - 1]))})

RECURSIVE SumTokens(_)
SumTokens(els) == IF els = <<>> THEN 0 ELSE Tokens(Head(els).content) + SumTokens(Tail(els))

\* this step put text without white space at the end of one element's content
AppendsText ==
    /\ Len(elements') = Len(elements)
    /\ \E i \in DOMAIN elements :
        /\ \A j \in DOMAIN elements : j # i => elements'[j] = elements[j]
        /\ Len(elements'[i].content) > Len(elements[i].content)
        /\ SubSeq(elements'[i].content, 1, Len(elements[i].content)) = elements[i].content
        /\ \A k \in (Len(elements[i].content) + 1)..Len(elements'[i].content) :
              ~IsSpace(elements'[i].content[k])

(***************************************************************************)
(* C27: wordCount is the sum over the elements of the number of            *)
(* whitespace-delimited non-empty tokens of the content; the server's      *)
(* count of the same content equals it; and appending text without white   *)
(* space to an element's content never decreases it.                       *)
(***************************************************************************)
C27_WordCount ==
    [][/\ wordCount' = SumTokens(elements')
       /\ countScriptWords([elements |-> elements'])
             = SumEditorWords(elements')
       /\ AppendsText => SumEditorWords(elements') >= wordCount]_vars

\* 'b' was typed after 'a  b' (the count stays 2) next to a blank element
C27_Witness ==
    /\ lastOp.op = "HandleInput" /\ Len(elements) = 2
    /\ elements[1].content = <<"a", " ", " ", "b", "b">>
    /\ elements[2].content = <<" ">>
    /\ wordCount = 2

(***************************************************************************)
(* Dangling comments: a screenplay with a comment on each of its two       *)
(* elements is opened, its empty second element is removed with Backspace, *)
(* and the cards of the comments modal are used.                           *)
(***************************************************************************)
CommentedScript ==
    [ScriptHolding("feature", <<[type |-> "action", content |-> <<"a">>],
                                [type |-> "action", content |-> <<>>]>>)
        EXCEPT !.comments = <<[id |-> 1, elementId |-> 2, resolved |-> FALSE],
                              [id |-> 2, elementId |-> 1, resolved |-> FALSE]>>]

InitDangling == InitWith(CommentedScript)

NextDangling ==
    \/ LoadScript
    \/ \E i \in 1..MaxElems : FocusElement(i)
    \/ KeyBackspace
    \/ OpenModal("comments")
    \/ \E i \in DOMAIN comments : ResolveComment(comments[i].id, ~comments[i].resolved)
    \/ \E i \in DOMAIN comments : DeleteComment(comments[i].id)
    \/ \E i \in DOMAIN comments : modal = "comments" /\ JumpToElement(comments[i].elementId)
    \/ ServerResolveComment
    \/ ServerDeleteComment

SpecDangling == InitDangling /\ [][NextDangling]_vars

Dangling(c) == c.elementId \notin Ids(elements)

\* the cards of the open comments modal render, a dangling comment with the placeholder
CardsRender ==
    (script # NoScript /\ modal = "comments") =>
        \A i \in DOMAIN comments :
            /\ ~CommentCards[i].context.raised
            /\ Dangling(comments[i]) => CommentCards[i].context.text = DeletedMark \o Ellipsis

\* a card's button, pressed with a dangling comment in the list, runs to its end
ButtonsComplete ==
    (\E i \in DOMAIN comments : Dangling(comments[i])) =>
        /\ lastOp'.op = "ResolveComment" =>
              /\ Len(comments') = Len(comments)
              /\ \E i \in DOMAIN comments :
                    /\ comments'[i] = [comments[i] EXCEPT !.resolved = ~@]
                    /\ \A j \in DOMAIN comments : j # i => comments'[j] = comments[j]
              /\ BagCardinality(reqs') = BagCardinality(reqs) + 1
        /\ lastOp'.op = "DeleteComment" =>
              /\ Len(comments') = Len(comments) - 1
              /\ Range(comments') \subseteq Range(comments)
              /\ BagCardinality(reqs') = BagCardinality(reqs) + 1
        /\ lastOp'.op = "JumpToElement" =>
              /\ modal' = "null" /\ elements' = elements /\ comments' = comments
              /\ activeId' \in {comments[i].elementId : i \in DOMAIN comments}

(***************************************************************************)
(* C28: a comment whose elementId matches no current element is rendered   *)
(* with the placeholder '(deleted)', and rendering the cards, resolving,   *)
(* deleting or jumping to such a comment raises nothing: the cards are     *)
(* values and the handlers run to their end.                               *)
(***************************************************************************)
C28_DanglingCommentIsHarmless ==
    [][CardsRender' /\ ButtonsComplete]_vars

\* the comment of the removed element was resolved from its card, which shows the
\* placeholder
C28_Witness ==
    /\ lastOp.op = "ResolveComment" /\ modal = "comments"
    /\ \E i \in DOMAIN comments :
        /\ Dangling(comments[i]) /\ comments[i].resolved
        /\ CommentCards[i].context = Shown(DeletedMark \o Ellipsis)

(***************************************************************************)
(* Accounts: users register, log in and are approved against a server      *)
(* without users.                                                          *)
(***************************************************************************)
InitAuth == InitWith(NewScript("feature"))

NextAuth ==
    \/ \E username \in Usernames : RegisterCount(username)
    \/ RegisterStore
    \/ \E username \in Usernames : Login(username)
    \/ \E token \in 1..MaxSessions, uid \in 1..MaxUsers, status \in UserStatuses :
          AdminSetStatus(token, uid, status)

SpecAuth == InitAuth /\ [][NextAuth]_vars

\* the users a session was added for in this step
NewlySignedIn == {kvSessions'[t].uid : t \in (Len(kvSessions) + 1)..Len(kvSessions')}

\* a pending user gets no session: not from registering, not from a login
NoSessionWhilePending ==
    \A uid \in NewlySignedIn : kvUsers'[uid].status # "pending"

(***************************************************************************)
(* C29: a registration other than the very first stores a pending user     *)
(* with the role user and creates no session; no login of a pending user   *)
(* creates a session; only the first registered user is stored approved,   *)
(* as admin, with a session.                                               *)
(***************************************************************************)
C29_ApprovalBeforeSignIn ==
    [][/\ NoSessionWhilePending
       /\ lastOp'.op = "RegisterStore" =>
             IF Len(kvUsers) = 0
             THEN /\ kvUsers'[1].role = "admin" /\ kvUsers'[1].status = "approved"
                  /\ NewlySignedIn = {1}
             ELSE /\ kvUsers'[Len(kvUsers')].role = "user"
                  /\ kvUsers'[Len(kvUsers')].status = "pending"
                  /\ kvSessions' = kvSessions]_vars

\* the parts that do not depend on who is first: sessions go to users that are not
\* pending, and a pending user stays out until an admin changes the status
SessionsRule ==
    [][/\ NoSessionWhilePending
       /\ \A uid \in DOMAIN kvUsers :
             (kvUsers[uid].status = "pending" /\ kvUsers'[uid].status # "pending")
                 => lastOp'.op = "AdminSetStatus"]_vars

(***************************************************************************)
(* Debounce: a new screenplay is opened and edited while time passes.  The *)
(* browser runs a timer callback that is due, and the server answers a     *)
(* request it received: weak fairness of the steps that are not the        *)
(* user's.                                                                 *)
(***************************************************************************)
InitDebounce == InitWith(NewScript("feature"))

NextDebounce ==
    \/ LoadScript
    \/ FocusElement(1)
    \/ HandleInput(<<"a">>)
    \/ ToolbarTap("action")
    \/ UpdateTitlePage("title", <<"T">>)
    \/ Tick
    \/ TimerFire
    \/ BackButton
    \/ ServerPutContent
    \/ SaveResponse
    \/ ResponseAfterLeave

\* a save request is waiting at the server
SavePending == \E m \in BagToSet(reqs) : m.kind = "save"

\* weak fairness of the server's step, written out with its enabling condition
SpecDebounce ==
    /\ InitDebounce /\ [][NextDebounce]_vars
    /\ WF_vars(Tick) /\ WF_vars(TimerFire) /\ WF_vars(SaveResponse)
    /\ ([]<>(~SavePending) \/ []<><<ServerPutContent>>_vars)

\* the handlers that change the document
Mutators ==
    {"HandleInput", "KeyTab", "ToolbarTap", "KeyEnter", "AddNewElement", "KeyBackspace",
     "AcceptAutocomplete", "AutocompleteClick", "UpdateTitlePage"}

\* a step of a handler that changed the elements or the title page
Mutation ==
    /\ lastOp'.op \in Mutators
    /\ elements' # elements \/ titlePage' # titlePage

\* the debounced save was issued
TimerSaved == lastOp.op = "TimerFire" /\ lastOp.sent

\* the 2000 ms have passed in the editor without a further mutation
Settled == TimerDue /\ page = "editor"

\* what ends the wait: the save, a further mutation, or leaving the editor
SavedOrMoved == TimerSaved \/ lastOp.op \in Mutators \/ page = "left"

\* every mutation sets dirty and starts the full delay
MutationMarksDirty ==
    [][Mutation => (dirty' /\ saveTimer'.armed /\ saveTimer'.left * TickMs >= DebounceMs)]_vars

\* in the first copy of the editor the timer that is due issues its request
TimerSavesInFirstCopy == (variant = 1 /\ Settled) ~> SavedOrMoved

(***************************************************************************)
(* C30: every mutation sets the dirty flag and (re)starts the 2000 ms      *)
(* timer, and once the 2000 ms have passed without a further mutation the  *)
(* timer issues a save request, unless a further mutation or leaving the   *)
(* editor comes first.                                                     *)
(***************************************************************************)
C30_MutationIsEventuallySaved == MutationMarksDirty /\ (Settled ~> SavedOrMoved)

(***************************************************************************)
(* Save status: the indicator of the editor (lines 451 and 1050) shows     *)
(* Saving while saving, Unsaved while dirty, and Saved otherwise.          *)
(***************************************************************************)
\* the persisted document as loadScript reads it
PersistedDocument ==
    [elements |-> PersistedElements,
     titlePage |-> IF HasTitlePage(kvScript.content) THEN kvScript.content.titlePage
                   ELSE EmptyTitlePage]

\* the indicator shows Saved
StatusClean == script # NoScript /\ page = "editor" /\ ~saving /\ ~dirty

\* a save completes while the timer of a later mutation is pending
SaveEndsDuringEdit == lastOp'.op = "SaveResponse" /\ saveTimer.armed

\* the status after a save that completed during an edit
EditDuringSaveRule == [][SaveEndsDuringEdit => dirty']_vars

(***************************************************************************)
(* C31: the status is truthful: whenever the loaded editor shows Saved     *)
(* (saving = false and dirty = false), the persisted document is the       *)
(* editor's elements and title page.                                       *)
(***************************************************************************)
C31_CleanStatusIsTruthful == StatusClean => PersistedDocument = CurrentDocument

(***************************************************************************)
(* C32: once the script is loaded, activeId is null or the id of an        *)
(* element of the document, and activeType is that element's type.         *)
(***************************************************************************)
C32_ActiveElementExists ==
    (script # NoScript /\ activeId # 0)
        => /\ activeId \in Ids(elements)
           /\ activeType = ElementById(elements, activeId).type

(***************************************************************************)
(* Suggestions and focus: the two character elements of the stored         *)
(* screenplay are focused in turn and typed into, and a suggestion is      *)
(* accepted by Tab or by a click.                                          *)
(***************************************************************************)
InitStale == InitWith(CastScript)

\* the texts typed: a prefix of both names, no prefix
StaleInputVals == {<<"a">>, <<"x">>}

NextStale ==
    \/ LoadScript
    \/ \E i \in 1..MaxElems : FocusElement(i)
    \/ \E val \in StaleInputVals : HandleInput(val)
    \/ KeyTab(FALSE)
    \/ AutocompleteClick(1)
    \/ KeyEscape

SpecStale == InitStale /\ [][NextStale]_vars

\* the suggestions handleInput derives from an element of this type and content
SuggestionsFor(el) ==
    IF el.type = "character" /\ Len(el.content) > 0 THEN CharacterMatches(el.content)
    ELSE IF el.type = "scene-heading" /\ Len(el.content) > 4
    THEN [i \in DOMAIN LocationMatches(el.content) |->
             LocationSuggestion(LocationMatches(el.content)[i])]
    ELSE <<>>

\* a step that accepted a suggestion
Accepts == showAutocomplete /\ lastOp'.op \in {"KeyTab", "KeyEnter", "AutocompleteClick"}

\* an accepted suggestion replaces the text of an element it was derived from
AcceptKeepsOthersRule ==
    [][Accepts => \A i \in DOMAIN elements :
                     elements'[i] # elements[i]
                         => elements'[i].content \in Range(SuggestionsFor(elements[i]))]_vars

(***************************************************************************)
(* C33: whenever autocomplete is open, its suggestions are the ones        *)
(* derived from the content and type the active element has now.           *)
(***************************************************************************)
C33_SuggestionsFollowActiveElement ==
    (showAutocomplete /\ activeId \in Ids(elements))
        => autocompleteItems = SuggestionsFor(ElementById(elements, activeId))

\* a restore has completed, no request or response is in transit, no timer is pending
RestoredAndSettled ==
    /\ script # NoScript /\ page = "editor"
    /\ restorePc = "idle" /\ restoreSeen.stored # NoDocument
    /\ InTransit = 0 /\ ~saveTimer.armed

(***************************************************************************)
(* C34: a debounced save that was pending when a version was restored does *)
(* not undo the restore: once the restore and every save have completed    *)
(* and the editor holds the restored version's content, the persisted      *)
(* document is that content too.                                           *)
(***************************************************************************)
C34_PendingSaveKeepsRestore ==
    (RestoredAndSettled /\ CurrentDocument = restoreSeen.stored)
        => kvScript.content = restoreSeen.stored

(***************************************************************************)
(* C35: the server's handlers of one script do not lose each other's       *)
(* updates: once every request has completed, each comment whose creation  *)
(* was acknowledged to the editor is in the persisted comment list.        *)
(***************************************************************************)
C35_AcknowledgedCommentIsStored ==
    (script # NoScript /\ InTransit = 0)
        => \A i \in DOMAIN comments : comments[i] \in Range(kvScript.comments)

(***************************************************************************)
(* Shared edits of a script with a title page: the script is shared for    *)
(* editing, its stored content holds two elements and a title; the shared  *)
(* view is opened and typed into.                                          *)
(***************************************************************************)
TitledScript ==
    [ScriptHolding("feature", <<[type |-> "scene-heading", content |-> <<"a">>],
                                [type |-> "action", content |-> <<>>]>>)
        EXCEPT !.content = [elements |-> @.elements,
                            titlePage |-> [f \in TitleFields |-> <<"T">>]]]

InitTitled == InitWith(TitledScript)

NextTitled ==
    \/ LoadScript
    \/ LoadShared(1)
    \/ \E i \in 1..MaxElems, val \in InputVals : SharedHandleInput(i, val)
    \/ ServerSharedPut

SpecTitled == InitTitled /\ [][NextTitled]_vars

\* the persisted title page as loadScript reads it
PersistedTitlePage ==
    IF HasTitlePage(kvScript.content) THEN kvScript.content.titlePage ELSE EmptyTitlePage

(***************************************************************************)
(* C36: a content edit made through the shared edit surface leaves the     *)
(* persisted title page as it was.                                         *)
(***************************************************************************)
C36_SharedEditKeepsTitlePage ==
    [][lastOp'.op \in {"SharedHandleInput", "ServerSharedPut"}
          => PersistedTitlePage' = PersistedTitlePage]_vars

(***************************************************************************)
(* Sharing while saving: the first copy of the editor types into a new     *)
(* screenplay, the debounced save is handled with its kv.get and kv.set as  *)
(* separate steps, sharing is enabled and stopped, and the links that were  *)
(* issued are opened.                                                      *)
(***************************************************************************)
InitRevoke == InitWith(NewScript("feature")) /\ variant = 1

NextRevoke ==
    \/ LoadScript
    \/ FocusElement(1)
    \/ HandleInput(<<"a">>)
    \/ Tick
    \/ TimerFire
    \/ ServerPutContentGet
    \/ ServerPutContentSet
    \/ SaveResponse
    \/ EnableSharingWithin(MaxWithShare, "edit")
    \/ ServerShare
    \/ ShareResponse
    \/ DisableSharing
    \/ ServerUnshare
    \/ UnshareResponse
    \/ \E token \in 1..MaxTokens : LoadShared(token)

SpecRevoke == InitRevoke /\ [][NextRevoke]_vars

\* the script holds this token with the mode of the token's shares entry
ScriptShares(token) ==
    kvScript.shareToken = token /\ kvScript.shareMode = ShareOf(token).mode

\* once 'Stop Sharing' was answered, no link that was issued opens the script
StoppedLinkIsDeadRule ==
    (lastOp.op = "UnshareResponse") => \A token \in 1..MaxTokens : ~HasShare(token)

(***************************************************************************)
(* C37: a share token grants access only while sharing is enabled: a       *)
(* shares entry exists for a token iff the script holds that token as its   *)
(* shareToken, with the entry's mode.                                      *)
(***************************************************************************)
C37_ShareEntryIffScriptToken ==
    \A token \in 1..MaxTokens :
        /\ HasShare(token) => ScriptShares(token)
        /\ kvScript.shareToken = token => HasShare(token)

(***************************************************************************)
(* Ownership: the first user owns a shared script and is signed in; a      *)
(* second user registers, is approved, and signs in; sessions expire; and  *)
(* requests to the script's routes arrive with any cookie or none.         *)
(***************************************************************************)
InitOwner ==
    InitOf(SharedForEdit(NewScript("feature")),
           <<NewUser("ann", 0)>>, [n \in {"ann"} |-> 1], <<NewSession(1)>>)

NextOwner ==
    \/ \E username \in Usernames : RegisterCount(username)
    \/ RegisterStore
    \/ \E username \in Usernames : Login(username)
    \/ \E token \in 1..MaxSessions, uid \in 1..MaxUsers, status \in UserStatuses :
          AdminSetStatus(token, uid, status)
    \/ \E token \in 1..MaxSessions : ExpireSession(token)
    \/ \E token \in 0..MaxSessions, endpoint \in Endpoints : ScriptRequest(token, endpoint)

SpecOwner == InitOwner /\ [][NextOwner]_vars

\* the cookie names a stored session that has not expired, of the script's owner
IsOwnerSession(token) ==
    /\ token \in DOMAIN kvSessions
    /\ kvSessions[token].uid = kvScript.ownerId
    /\ ~kvSessions[token].expired
    /\ kvScript.ownerId \in DOMAIN kvUsers

====
